---- MODULE Spec2Model ----
(***************************************************************************)
(* A model of the chess turn engine: the board (src/game/board.rs), the    *)
(* movement patterns (movement.rs), king safety (king.rs), the SAN turn    *)
(* executor (play.rs), the legal-turn enumerator (simulation.rs) and the   *)
(* Game facade (game.rs).                                                  *)
(*                                                                         *)
(* Representation.  A square is a number 0..63, file = sq % 8 and          *)
(* rank = sq \div 8 (a1 = 0, h1 = 7, a8 = 56).  A cell of the board map is *)
(* the byte board_map.rs stores: 0 for an empty square, side + piece       *)
(* otherwise.  A turn is the structure chess_notation_parser produces from *)
(* a SAN string (the parser is an external crate): a record with the       *)
(* fields kind, type, who, dst, flags, src, promotion.  An absent Option   *)
(* is 0 (promotion), {} (src), <<>> (enpassant, captured) or -1 (a         *)
(* square).  The 64-bit position hash of Board::calc_hash is modelled by   *)
(* the hashed tuple itself, so distinct positions never collide.           *)
(***************************************************************************)
EXTENDS Integers, Sequences, FiniteSets, TLC

\* ------------------------------------------------------------------ pieces
PIECE_PAWN == 1
PIECE_ROOK == 2
PIECE_KNIGHT == 3
PIECE_BISHOP == 4
PIECE_QUEEN == 5
PIECE_KING == 6
MASK_PIECES == 7
SIDE_BLACK == 64
SIDE_WHITE == 128
ARR_LEN == 64

Squares == 0..(ARR_LEN - 1)
Sides == {SIDE_WHITE, SIDE_BLACK}
NoSquare == 0 - 1

\* side.rs: Side::opponent
opponent(side) == IF side = SIDE_WHITE THEN SIDE_BLACK ELSE SIDE_WHITE

\* board_map.rs: u8_from_figure / u8_to_figure
u8_from_figure(piece, side) == side + piece
PieceOf(data) == data % (MASK_PIECES + 1)
SideOf(data) == data - PieceOf(data)

\* Square::get_file_char / get_rank_char, as numbers 0..7
FileOf(sq) == sq % 8
RankOf(sq) == sq \div 8
Sq(file, rank) == rank * 8 + file
\* Square::get_file / Square::get_rank: all the squares of a file or a rank
FileSquares(f) == {sq \in Squares : FileOf(sq) = f}
RankSquares(r) == {sq \in Squares : RankOf(sq) = r}

\* Square::get_relative_neighbor: the square (x, y) away, NoSquare off the board
get_relative_neighbor(sq, x, y) ==
    LET f == FileOf(sq) + x
        r == RankOf(sq) + y
    IN IF f \in 0..7 /\ r \in 0..7 THEN Sq(f, r) ELSE NoSquare

\* ------------------------------------------------------------------ movement.rs
DIR_N == <<0, 1>>
DIR_S == <<0, 0 - 1>>
DIR_E == <<1, 0>>
DIR_W == <<0 - 1, 0>>
DIR_NE == <<1, 1>>
DIR_NW == <<0 - 1, 1>>
DIR_SE == <<0 - 1, 0 - 1>>
DIR_SW == <<1, 0 - 1>>

\* MovePattern::next, iterated: the squares one pattern yields, in order.  The
\* k-th is k steps of (x, y) away; the walk ends at the edge of the board.
WalkLen(sq, x, y, moves_left) ==
    Cardinality({k \in 1..moves_left : get_relative_neighbor(sq, k * x, k * y) # NoSquare})
Walk(sq, x, y, moves_left) ==
    [k \in 1..WalkLen(sq, x, y, moves_left) |-> get_relative_neighbor(sq, k * x, k * y)]

\* The walks of every square and direction, computed once
WalkTable == [sq \in Squares |-> [x \in (0 - 2)..2 |-> [y \in (0 - 2)..2 |->
                 IF x = 0 /\ y = 0 THEN <<>> ELSE Walk(sq, x, y, 8)]]]

MovePattern(dst, moves_left, dir) == [dst |-> dst, moves_left |-> moves_left, dir |-> dir]

PatternSquares(p) ==
    LET full == WalkTable[p.dst][p.dir[1]][p.dir[2]]
    IN IF Len(full) <= p.moves_left THEN full ELSE SubSeq(full, 1, p.moves_left)

get_moves_pawn_normal(dst, side, dir) ==
    IF side = SIDE_WHITE
    THEN LET d == IF dir = "Backward" THEN DIR_S ELSE DIR_N
             rank == IF dir = "Backward" THEN 3 ELSE 1
         IN <<MovePattern(dst, IF RankOf(dst) = rank THEN 2 ELSE 1, d)>>
    ELSE LET d == IF dir = "Backward" THEN DIR_N ELSE DIR_S
             rank == IF dir = "Backward" THEN 4 ELSE 6
         IN <<MovePattern(dst, IF RankOf(dst) = rank THEN 2 ELSE 1, d)>>

get_moves_pawn_capture(dst, side, dir) ==
    IF (side = SIDE_WHITE) = (dir = "Backward")
    THEN <<MovePattern(dst, 1, DIR_SE), MovePattern(dst, 1, DIR_SW)>>
    ELSE <<MovePattern(dst, 1, DIR_NE), MovePattern(dst, 1, DIR_NW)>>

get_moves_queen(dst) ==
    <<MovePattern(dst, 8, DIR_N), MovePattern(dst, 8, DIR_NE),
      MovePattern(dst, 8, DIR_E), MovePattern(dst, 8, DIR_SE),
      MovePattern(dst, 8, DIR_S), MovePattern(dst, 8, DIR_SW),
      MovePattern(dst, 8, DIR_W), MovePattern(dst, 8, DIR_NW)>>

get_moves_bishop(dst) ==
    <<MovePattern(dst, 8, DIR_NE), MovePattern(dst, 8, DIR_SE),
      MovePattern(dst, 8, DIR_SW), MovePattern(dst, 8, DIR_NW)>>

get_moves_rook(dst) ==
    <<MovePattern(dst, 8, DIR_N), MovePattern(dst, 8, DIR_E),
      MovePattern(dst, 8, DIR_S), MovePattern(dst, 8, DIR_W)>>

get_moves_king(dst) ==
    <<MovePattern(dst, 1, DIR_N), MovePattern(dst, 1, DIR_NE),
      MovePattern(dst, 1, DIR_E), MovePattern(dst, 1, DIR_SE),
      MovePattern(dst, 1, DIR_S), MovePattern(dst, 1, DIR_SW),
      MovePattern(dst, 1, DIR_W), MovePattern(dst, 1, DIR_NW)>>

get_moves_knight(dst) ==
    <<MovePattern(dst, 1, <<1, 2>>), MovePattern(dst, 1, <<1, 0 - 2>>),
      MovePattern(dst, 1, <<0 - 1, 2>>), MovePattern(dst, 1, <<0 - 1, 0 - 2>>),
      MovePattern(dst, 1, <<2, 1>>), MovePattern(dst, 1, <<2, 0 - 1>>),
      MovePattern(dst, 1, <<0 - 2, 1>>), MovePattern(dst, 1, <<0 - 2, 0 - 1>>)>>

\* PieceMove: the five pieces, and the two pawn patterns
PM_PAWN_CAPTURE == 8
PM_PAWN_NORMAL == 9
\* PieceMove::to_piece and From<Piece> for PieceMove
to_piece(piece_move) == IF piece_move >= PM_PAWN_CAPTURE THEN PIECE_PAWN ELSE piece_move
PieceMoveFrom(piece) == piece

get_move_pattern(square, side, piece_move, dir) ==
    CASE piece_move = PM_PAWN_NORMAL -> get_moves_pawn_normal(square, side, dir)
      [] piece_move = PM_PAWN_CAPTURE -> get_moves_pawn_capture(square, side, dir)
      [] piece_move = PIECE_QUEEN -> get_moves_queen(square)
      [] piece_move = PIECE_BISHOP -> get_moves_bishop(square)
      [] piece_move = PIECE_ROOK -> get_moves_rook(square)
      [] piece_move = PIECE_KNIGHT -> get_moves_knight(square)
      [] OTHER -> get_moves_king(square)

\* The index of the first occupied square of a walk, 0 when there is none
FirstHit(map, walk) ==
    LET occ == {i \in 1..Len(walk) : map[walk[i]] # 0}
    IN IF occ = {} THEN 0 ELSE CHOOSE i \in occ : \A j \in occ : i <= j

\* The sequences lo..hi of seqs joined, in order
RECURSIVE FlattenRange(_, _, _)
FlattenRange(seqs, lo, hi) ==
    IF lo > hi THEN <<>>
    ELSE IF lo = hi THEN seqs[lo]
    ELSE FlattenRange(seqs, lo, (lo + hi) \div 2)
         \o FlattenRange(seqs, (lo + hi) \div 2 + 1, hi)
Flatten(seqs) == FlattenRange(seqs, 1, Len(seqs))

SeqToSet(s) == {s[i] : i \in 1..Len(s)}

\* One pattern of possible_squares_for_dst: the first piece met on the walk,
\* if it is the piece looked for
DstOfWalk(map, piece, walk, h) ==
    IF h # 0 /\ map[walk[h]] = piece THEN <<walk[h]>> ELSE <<>>
DstOfPattern(map, piece, walk) == DstOfWalk(map, piece, walk, FirstHit(map, walk))
DstOfPatterns(map, piece, dep_moves) ==
    Flatten([i \in 1..Len(dep_moves) |-> DstOfPattern(map, piece, PatternSquares(dep_moves[i]))])

\* possible_squares_for_dst: the squares holding a `side` piece of the kind
\* that can reach dst
possible_squares_for_dst(map, dst, side, piece_move) ==
    DstOfPatterns(map, u8_from_figure(to_piece(piece_move), side),
                  get_move_pattern(dst, side, piece_move, "Backward"))

\* One pattern of possible_squares_for_src: the walk up to the first piece
\* met, which is included when it can be captured
SrcOfWalk(map, side, walk, h) ==
    IF h = 0 THEN walk
    ELSE IF SideOf(map[walk[h]]) # side /\ PieceOf(map[walk[h]]) # PIECE_KING
         THEN SubSeq(walk, 1, h)
         ELSE SubSeq(walk, 1, h - 1)
SrcOfPattern(map, side, walk) == SrcOfWalk(map, side, walk, FirstHit(map, walk))
SrcOfPatterns(map, side, dep_moves) ==
    Flatten([i \in 1..Len(dep_moves) |-> SrcOfPattern(map, side, PatternSquares(dep_moves[i]))])

\* possible_squares_for_src: the squares a piece on src can move to
possible_squares_for_src(map, src, side, piece_move) ==
    SrcOfPatterns(map, side, get_move_pattern(src, side, piece_move, "Forward"))

\* get_exact_src: the one possible source the hint admits, NoSquare for
\* MovingPieceNotFound.  turn_src = {} is None.
get_exact_src(possible_src, turn_src) ==
    IF turn_src = {}
    THEN IF Len(possible_src) # 1 THEN NoSquare ELSE possible_src[Len(possible_src)]
    ELSE LET hits == {i \in 1..Len(possible_src) : possible_src[i] \in turn_src}
         IN IF Cardinality(hits) # 1 THEN NoSquare
            ELSE possible_src[CHOOSE i \in hits : TRUE]

\* ------------------------------------------------------------------ king.rs
is_attacked_by(map, pos, side, piece_move) ==
    \E sq \in SeqToSet(possible_squares_for_dst(map, pos, side, piece_move)) :
        map[sq] # 0 /\ PieceOf(map[sq]) = to_piece(piece_move)

\* is_safe: no queen, knight, bishop, rook, pawn or king of the opponent
\* attacks pos
is_safe(map, pos, side) ==
    ~(\E piece_move \in {PIECE_QUEEN, PIECE_KNIGHT, PIECE_BISHOP, PIECE_ROOK,
                          PM_PAWN_CAPTURE, PIECE_KING} :
          is_attacked_by(map, pos, opponent(side), piece_move))

\* any_safe_moves: the king is lifted off the board while its moves are scanned
any_safe_moves(map, square, side) ==
    \E sq \in SeqToSet(possible_squares_for_src(map, square, side, PIECE_KING)) :
        is_safe([map EXCEPT ![square] = 0], sq, side)

\* get_state: KingState of the king of `side`
get_state(board, side) ==
    IF is_safe(board.map, board.king[side], side) THEN "Safe"
    ELSE IF any_safe_moves(board.map, board.king[side], side) THEN "Check"
    ELSE "SoftCheckmate"

\* ------------------------------------------------------------------ castlinginfo.rs
Path(src, dst) == [src |-> src, dst |-> dst]
BackRank(side) == IF side = SIDE_WHITE THEN 0 ELSE 7

get_path_king(side, castling_type) ==
    IF castling_type = "Long" THEN Path(Sq(4, BackRank(side)), Sq(2, BackRank(side)))
    ELSE Path(Sq(4, BackRank(side)), Sq(6, BackRank(side)))

get_path_rook(side, castling_type) ==
    IF castling_type = "Long" THEN Path(Sq(0, BackRank(side)), Sq(3, BackRank(side)))
    ELSE Path(Sq(7, BackRank(side)), Sq(5, BackRank(side)))

get_king_crossing_squares(side, castling_type) ==
    IF castling_type = "Long" THEN <<Sq(3, BackRank(side)), Sq(2, BackRank(side))>>
    ELSE <<Sq(5, BackRank(side)), Sq(6, BackRank(side))>>

get_required_empty_squares(side, castling_type) ==
    IF castling_type = "Long"
    THEN <<Sq(3, BackRank(side)), Sq(2, BackRank(side)), Sq(1, BackRank(side))>>
    ELSE <<Sq(5, BackRank(side)), Sq(6, BackRank(side))>>

\* CastlingType::opposite
opposite(castling_type) == IF castling_type = "Long" THEN "Short" ELSE "Long"

\* ------------------------------------------------------------------ castling_rights.rs
\* CastlingRights: the four bits of the mask, as the set of <<side, type>> held
AllCastlingRights == {<<s, t>> : s \in Sides, t \in {"Long", "Short"}}
CastlingRights_new(rights) == IF rights = "None" THEN {} ELSE AllCastlingRights
CastlingRights_insert(rights, castling) == rights \cup {castling}
CastlingRights_remove(rights, castling) == rights \ {castling}

\* ------------------------------------------------------------------ enpassant.rs
\* Enpassant::try_from: <<pawn_src, capture_pos>>, <<>> for None
Enpassant_try_from(src, dst, side) ==
    LET two == get_relative_neighbor(src, 0, IF side = SIDE_BLACK THEN 0 - 2 ELSE 2)
    IN IF (IF two = NoSquare THEN src ELSE two) # dst THEN <<>>
       ELSE <<dst, get_relative_neighbor(src, 0, IF side = SIDE_BLACK THEN 0 - 1 ELSE 1)>>

\* ------------------------------------------------------------------ turns
\* Turn of chess_notation_parser.  flags is a subset of TurnFlags, src the
\* squares the source hint names ({} for none), promotion a piece or 0.
TurnFlags == {"CAPTURE", "CHECK", "CHECKMATE"}
turn_move(who, dst, flags, src, promotion) ==
    [kind |-> "Move", type |-> "", who |-> who, dst |-> dst, flags |-> flags,
     src |-> src, promotion |-> promotion]
turn_castling(castling_type, flags) ==
    [kind |-> "Castling", type |-> castling_type, who |-> PIECE_KING, dst |-> NoSquare,
     flags |-> flags, src |-> {}, promotion |-> 0]
\* a string the parser rejects
UnparsableTurn ==
    [kind |-> "Unparsable", type |-> "", who |-> 0, dst |-> NoSquare, flags |-> {},
     src |-> {}, promotion |-> 0]

\* ------------------------------------------------------------------ state.rs
\* State::new: the snapshot taken before a turn is played.  The turn is kept
\* as text and parsed again by Board::undo, which reads its kind, castling
\* type, destination and promotion.
State_new(board, next_turn) ==
    [turn |-> next_turn, moving_piece_src |-> NoSquare, enpassant |-> board.enpassant,
     fifty_move_rule |-> board.fifty_move_rule, castling_rights |-> board.castling_rights,
     captured |-> <<>>]

\* ------------------------------------------------------------------ board.rs
\* A panic (unwrap, expect, assert) aborts the call: the board is marked.
Panic(board) == [board EXCEPT !.fault = "panic"]

\* Board::move_piece without the update of the king cache
move_piece_king_uncached(board, dst, src) ==
    LET data == board.map[src]
    IN IF data = 0 THEN Panic(board)
       ELSE [board EXCEPT !.map = [@ EXCEPT ![src] = 0, ![dst] = data]]

\* Board::move_piece(dst, src); the piece captured is the old content of dst
move_piece(board, dst, src) ==
    LET data == board.map[src]
    IN IF data = 0 THEN Panic(board)
       ELSE [board EXCEPT
               !.map = [@ EXCEPT ![src] = 0, ![dst] = data],
               !.king = IF PieceOf(data) = PIECE_KING
                        THEN [@ EXCEPT ![SideOf(data)] = dst] ELSE @]

\* BoardMap::len
map_len(map) == Cardinality({sq \in Squares : map[sq] # 0})

\* Board::calc_hash
calc_hash(board) ==
    <<board.active_player, board.map, board.enpassant, board.castling_rights>>

HashCount(board, hash) ==
    IF hash \in DOMAIN board.state_hashes THEN board.state_hashes[hash] ELSE 0

SetHash(board, hash, cnt) ==
    [board EXCEPT !.state_hashes = (hash :> cnt) @@ board.state_hashes]

\* Board::hash_state_push: the count is a u8
hash_state_push(board) ==
    LET hash == calc_hash(board)
        cnt == HashCount(board, hash) + 1
    IN IF cnt > 255 THEN [SetHash(board, hash, 0) EXCEPT !.overflow = TRUE]
       ELSE SetHash(board, hash, cnt)

\* the Gamestate hash_state_push returns
hash_state_push_result(board) ==
    IF HashCount(board, calc_hash(board)) = 3 THEN "DrawThreeFoldRepetition"
    ELSE board.gamestate

\* Board::hash_state_pop: entry(hash).or_insert(0) -= 1, on a u8
hash_state_pop(board) ==
    LET hash == calc_hash(board)
        cnt == HashCount(board, hash)
    IN IF cnt = 0 THEN [SetHash(board, hash, 255) EXCEPT !.overflow = TRUE]
       ELSE SetHash(board, hash, cnt - 1)

\* Board::undo_castling
undo_castling(board, turn) ==
    LET side == board.active_player
        king_path == get_path_king(side, turn.type)
        rook_path == get_path_rook(side, turn.type)
    IN move_piece(move_piece(board, king_path.src, king_path.dst),
                  rook_path.src, rook_path.dst)

\* Board::undo_move
undo_move(board, turn, state) ==
    IF state.moving_piece_src = NoSquare THEN Panic(board)
    ELSE LET src == state.moving_piece_src
             b1 == move_piece(board, src, turn.dst)
             b2 == IF turn.promotion # 0
                   THEN [b1 EXCEPT !.map[src] = u8_from_figure(PIECE_PAWN, SideOf(b1.map[src]))]
                   ELSE b1
         IN IF b1.fault # "" THEN b1
            ELSE IF state.captured # <<>>
                 THEN [b2 EXCEPT !.map[state.captured[1]] = state.captured[2]]
                 ELSE b2

\* Board::undo without the restoring of the castling rights
undo_castling_rights_kept(board, prev_state) ==
    LET b0 == [board EXCEPT !.enpassant = prev_state.enpassant,
                            !.fifty_move_rule = prev_state.fifty_move_rule,
                            !.gamestate = "Ongoing"]
    IN IF prev_state.turn.kind = "Castling" THEN undo_castling(b0, prev_state.turn)
       ELSE undo_move(b0, prev_state.turn, prev_state)

\* Board::undo
undo(board, prev_state) ==
    LET b0 == [board EXCEPT !.enpassant = prev_state.enpassant,
                            !.castling_rights = prev_state.castling_rights,
                            !.fifty_move_rule = prev_state.fifty_move_rule,
                            !.gamestate = "Ongoing"]
    IN IF prev_state.turn.kind = "Castling" THEN undo_castling(b0, prev_state.turn)
       ELSE undo_move(b0, prev_state.turn, prev_state)

\* ------------------------------------------------------------------ play.rs (1)
HasFlag(turn, flag) == flag \in turn.flags

\* verify_castling with the squares between king and rook looked at before
\* the king's safety
verify_castling_squares_first(board, castling_type) ==
    LET side == board.active_player
        empties == get_required_empty_squares(side, castling_type)
        crossing == get_king_crossing_squares(side, castling_type)
    IN IF \E i \in 1..Len(empties) : board.map[empties[i]] # 0
       THEN "CastlingSquaresNotEmpty"
       ELSE IF ~is_safe(board.map, board.king[side], side) THEN "CastlingUnderCheck"
       ELSE IF \E i \in 1..Len(crossing) : ~is_safe(board.map, crossing[i], side)
            THEN "KingCannotCastleSafetly"
       ELSE ""

\* verify_castling: "" for Ok
verify_castling(board, castling_type) ==
    LET side == board.active_player
        empties == get_required_empty_squares(side, castling_type)
        crossing == get_king_crossing_squares(side, castling_type)
    IN IF ~is_safe(board.map, board.king[side], side) THEN "CastlingUnderCheck"
       ELSE IF \E i \in 1..Len(empties) : board.map[empties[i]] # 0
            THEN "CastlingSquaresNotEmpty"
       ELSE IF \E i \in 1..Len(crossing) : ~is_safe(board.map, crossing[i], side)
            THEN "KingCannotCastleSafetly"
       ELSE ""

\* handle_castling_status without the look at the captured piece
handle_castling_status_capture_unseen(board, src, turn, captured) ==
    IF board.castling_rights = {} THEN board
    ELSE LET side == board.active_player
             moved == CASE turn.who = PIECE_KING -> {<<side, "Short">>, <<side, "Long">>}
                        [] turn.who = PIECE_ROOK /\ src \in {Sq(0, 0), Sq(0, 7)} -> {<<side, "Long">>}
                        [] turn.who = PIECE_ROOK /\ src \in {Sq(7, 0), Sq(7, 7)} -> {<<side, "Short">>}
                        [] OTHER -> {}
         IN [board EXCEPT !.castling_rights = @ \ moved]

\* handle_castling_status; captured is the byte of the captured piece, 0 for None
handle_castling_status(board, src, turn, captured) ==
    IF board.castling_rights = {} THEN board
    ELSE LET side == board.active_player
             moved == CASE turn.who = PIECE_KING -> {<<side, "Short">>, <<side, "Long">>}
                        [] turn.who = PIECE_ROOK /\ src \in {Sq(0, 0), Sq(0, 7)} -> {<<side, "Long">>}
                        [] turn.who = PIECE_ROOK /\ src \in {Sq(7, 0), Sq(7, 7)} -> {<<side, "Short">>}
                        [] OTHER -> {}
             taken == CASE captured # 0 /\ PieceOf(captured) = PIECE_ROOK
                             /\ turn.dst \in {Sq(0, 0), Sq(0, 7)} -> {<<SideOf(captured), "Long">>}
                        [] captured # 0 /\ PieceOf(captured) = PIECE_ROOK
                             /\ turn.dst \in {Sq(7, 0), Sq(7, 7)} -> {<<SideOf(captured), "Short">>}
                        [] OTHER -> {}
         IN [board EXCEPT !.castling_rights = (@ \ moved) \ taken]

\* ------------------------------------------------------------------ simulation.rs
Sps(square, piece, side) == [square |-> square, piece |-> piece, side |-> side]

\* scan_for_pieces: the pieces of `side`, in the order the map iterates
ScanOrder == [i \in 1..ARR_LEN |-> i - 1]
ScanSps(map, side, held) ==
    [i \in 1..Len(held) |-> Sps(held[i], PieceOf(map[held[i]]), side)]
scan_for_pieces(map, side) ==
    LET own(sq) == map[sq] # 0 /\ SideOf(map[sq]) = side
    IN ScanSps(map, side, SelectSeq(ScanOrder, own))

\* get_promotion_for_unchecked_pawn_turns
get_promotion_for_unchecked_pawn_turns(turns, side) ==
    LET final(t) == \/ (RankOf(t.dst) = 0 /\ side = SIDE_BLACK)
                    \/ (RankOf(t.dst) = 7 /\ side = SIDE_WHITE)
        queened == [i \in 1..Len(turns) |->
                      IF final(turns[i]) THEN [turns[i] EXCEPT !.promotion = PIECE_QUEEN]
                      ELSE turns[i]]
        rest == Flatten([i \in 1..Len(turns) |->
                      IF final(turns[i])
                      THEN <<[turns[i] EXCEPT !.promotion = PIECE_ROOK],
                             [turns[i] EXCEPT !.promotion = PIECE_BISHOP],
                             [turns[i] EXCEPT !.promotion = PIECE_KNIGHT]>>
                      ELSE <<>>])
    IN queened \o rest

\* get_unchecked_pawn_turns: the normal turns onto empty squares
PawnNormalTurns(board, squares) ==
    Flatten([i \in 1..Len(squares) |->
        IF board.map[squares[i]] = 0
        THEN <<turn_move(PIECE_PAWN, squares[i], {}, {}, 0)>> ELSE <<>>])

\* get_unchecked_pawn_turns: the capture turns, onto a piece of the opponent
\* that is no king or onto the en-passant square
PawnCaptureKept(board, sq) ==
    IF board.map[sq] = 0
    THEN board.enpassant # <<>> /\ sq = board.enpassant[2]
    ELSE SideOf(board.map[sq]) # board.active_player /\ PieceOf(board.map[sq]) # PIECE_KING
PawnCaptureTurns(board, squares) ==
    Flatten([i \in 1..Len(squares) |->
        IF PawnCaptureKept(board, squares[i])
        THEN <<turn_move(PIECE_PAWN, squares[i], {"CAPTURE"}, {}, 0)>> ELSE <<>>])

\* get_unchecked_pawn_turns
get_unchecked_pawn_turns(sps, board) ==
    get_promotion_for_unchecked_pawn_turns(
        PawnNormalTurns(board, possible_squares_for_src(board.map, sps.square, sps.side,
                                                        PM_PAWN_NORMAL))
        \o PawnCaptureTurns(board, possible_squares_for_src(board.map, sps.square, sps.side,
                                                            PM_PAWN_CAPTURE)),
        board.active_player)

\* get_unchecked_non_pawn_turns
NonPawnTurns(sps, board, dsts) ==
    [i \in 1..Len(dsts) |->
        turn_move(sps.piece, dsts[i], IF board.map[dsts[i]] # 0 THEN {"CAPTURE"} ELSE {}, {}, 0)]
get_unchecked_non_pawn_turns(sps, board) ==
    NonPawnTurns(sps, board, possible_squares_for_src(board.map, sps.square, sps.side,
                                                      PieceMoveFrom(sps.piece)))

\* CastlingRights::get: the rights held, in the order of the mask bits
CastlingRightsOrder ==
    << <<SIDE_WHITE, "Long">>, <<SIDE_WHITE, "Short">>,
       <<SIDE_BLACK, "Long">>, <<SIDE_BLACK, "Short">> >>
CastlingRights_get(rights) ==
    Flatten([i \in 1..4 |-> IF CastlingRightsOrder[i] \in rights
                            THEN <<CastlingRightsOrder[i]>> ELSE <<>>])

\* get_unchecked_turns: the castlings of a king, those held by the player
\* that verify_castling allows
CastlingTurns(board, held) ==
    Flatten([i \in 1..Len(held) |->
        IF held[i][1] = board.active_player /\ verify_castling(board, held[i][2]) = ""
        THEN <<turn_castling(held[i][2], {})>> ELSE <<>>])

\* get_unchecked_turns
get_unchecked_turns(sps, board) ==
    IF sps.piece = PIECE_PAWN THEN get_unchecked_pawn_turns(sps, board)
    ELSE (IF sps.piece = PIECE_KING
          THEN CastlingTurns(board, CastlingRights_get(board.castling_rights))
          ELSE <<>>)
         \o get_unchecked_non_pawn_turns(sps, board)

SimResult(ok, board, state) == [ok |-> ok, board |-> board, state |-> state]

\* simulate_castling, once rook and king have moved: the king must be safe
simulate_castling_moved(board, turn, side, b2) ==
    SimResult(TRUE,
              [(IF is_safe(b2.map, b2.king[side], side) THEN b2 ELSE Panic(b2))
                  EXCEPT !.castling_rights = @ \ {<<side, opposite(turn.type)>>},
                         !.enpassant = <<>>],
              State_new(board, turn))

\* simulate_castling
simulate_castling(board, turn) ==
    simulate_castling_moved(board, turn, board.active_player,
        move_piece(
            move_piece(IF <<board.active_player, turn.type>> \in board.castling_rights
                       THEN [board EXCEPT !.castling_rights =
                                              @ \ {<<board.active_player, turn.type>>}]
                       ELSE Panic(board),
                       get_path_rook(board.active_player, turn.type).dst,
                       get_path_rook(board.active_player, turn.type).src),
            get_path_king(board.active_player, turn.type).dst,
            get_path_king(board.active_player, turn.type).src))

\* simulate_pawn_move: the capture is en passant
simulate_is_enpassant(board, turn) ==
    board.map[turn.dst] = 0 /\ board.enpassant # <<>> /\ turn.dst = board.enpassant[2]

\* simulate_pawn_move: state.captured
simulate_pawn_captured(board, turn) ==
    IF board.map[turn.dst] # 0 THEN <<turn.dst, board.map[turn.dst]>>
    ELSE IF simulate_is_enpassant(board, turn)
         THEN <<board.enpassant[1], board.map[board.enpassant[1]]>>
    ELSE <<>>

\* simulate_pawn_move, the pawn moved and the captured pawn taken off
simulate_pawn_take(board, turn, b1) ==
    IF simulate_is_enpassant(board, turn)
    THEN IF b1.map[board.enpassant[1]] = 0 THEN Panic(b1)
         ELSE [b1 EXCEPT !.map[board.enpassant[1]] = 0]
    ELSE b1

\* simulate_pawn_move, from its assertion on
simulate_pawn_checked(sps, turn, side, b2, state) ==
    IF b2.fault # "" \/ HasFlag(turn, "CAPTURE") # (state.captured # <<>>)
    THEN SimResult(TRUE, Panic(b2), state)
    ELSE IF ~is_safe(b2.map, b2.king[side], side)
    THEN SimResult(FALSE, undo(b2, state), state)
    ELSE SimResult(TRUE,
            [b2 EXCEPT !.map[turn.dst] = IF turn.promotion # 0
                                         THEN u8_from_figure(turn.promotion, sps.side)
                                         ELSE @,
                       !.fifty_move_rule = 0,
                       !.enpassant = IF HasFlag(turn, "CAPTURE") THEN <<>>
                                     ELSE Enpassant_try_from(sps.square, turn.dst, side)],
            state)

\* simulate_pawn_move
simulate_pawn_move(board, sps, turn) ==
    simulate_pawn_checked(sps, turn, board.active_player,
        simulate_pawn_take(board, turn, move_piece(board, turn.dst, sps.square)),
        [State_new(board, turn) EXCEPT !.captured = simulate_pawn_captured(board, turn),
                                       !.moving_piece_src = sps.square])

\* simulate_move, from the king's safety on; old is the byte captured
simulate_move_checked(sps, turn, side, old, b1, state) ==
    IF b1.fault # "" THEN SimResult(TRUE, b1, state)
    ELSE IF ~is_safe(b1.map, b1.king[side], side)
    THEN SimResult(FALSE, undo(b1, state), state)
    ELSE SimResult(TRUE,
            handle_castling_status([b1 EXCEPT !.fifty_move_rule = 0, !.enpassant = <<>>],
                                   sps.square, turn, old),
            state)

\* simulate_move
simulate_move(board, sps, turn) ==
    simulate_move_checked(sps, turn, board.active_player, board.map[turn.dst],
        move_piece(board, turn.dst, sps.square),
        [State_new(board, turn) EXCEPT
            !.captured = IF board.map[turn.dst] # 0 THEN <<turn.dst, board.map[turn.dst]>>
                         ELSE <<>>,
            !.moving_piece_src = sps.square])

switch_side(board) == [board EXCEPT !.active_player = opponent(@)]

\* simulate_turn, after the simulation of the turn
simulate_turn_pushed(r) ==
    IF r.ok /\ r.board.fault = ""
    THEN SimResult(TRUE, switch_side(hash_state_push(r.board)), r.state)
    ELSE r

\* simulate_turn
simulate_turn(board, sps, turn) ==
    simulate_turn_pushed(
        IF turn.kind = "Castling" THEN simulate_castling(board, turn)
        ELSE IF sps.piece = PIECE_PAWN THEN simulate_pawn_move(board, sps, turn)
        ELSE simulate_move(board, sps, turn))

\* the rollback of a simulated turn without the pop of the position hash
Unsimulate_hash_kept(board, state) == undo(switch_side(board), state)

\* the rollback of a simulated turn
Unsimulate(board, state) == undo(hash_state_pop(switch_side(board)), state)

\* confirm_checkmate, the turns lo..hi of one piece one after another, up to
\* the first that can be simulated: [found, board]
RECURSIVE ConfirmTurns(_, _, _, _, _)
ConfirmTurn(r) ==
    IF r.ok THEN [found |-> TRUE, board |-> Unsimulate(r.board, r.state)]
    ELSE [found |-> FALSE, board |-> r.board]
ConfirmTurnsRest(r, sps, turns, lo, hi) ==
    IF r.found THEN r ELSE ConfirmTurns(r.board, sps, turns, lo, hi)
ConfirmTurns(board, sps, turns, lo, hi) ==
    IF board.fault # "" \/ lo > hi THEN [found |-> FALSE, board |-> board]
    ELSE IF lo = hi THEN ConfirmTurn(simulate_turn(board, sps, turns[lo]))
    ELSE ConfirmTurnsRest(ConfirmTurns(board, sps, turns, lo, (lo + hi) \div 2),
                          sps, turns, (lo + hi) \div 2 + 1, hi)
ConfirmTurnsOf(board, sps, turns) == ConfirmTurns(board, sps, turns, 1, Len(turns))

\* confirm_checkmate, the pieces lo..hi one after another: [found, board]
RECURSIVE ConfirmPieces(_, _, _, _)
ConfirmPiecesRest(r, pieces, lo, hi) ==
    IF r.found THEN r ELSE ConfirmPieces(r.board, pieces, lo, hi)
ConfirmPieces(board, pieces, lo, hi) ==
    IF board.fault # "" \/ lo > hi THEN [found |-> FALSE, board |-> board]
    ELSE IF lo = hi
    THEN ConfirmTurnsOf(board, pieces[lo], get_unchecked_turns(pieces[lo], board))
    ELSE ConfirmPiecesRest(ConfirmPieces(board, pieces, lo, (lo + hi) \div 2),
                           pieces, (lo + hi) \div 2 + 1, hi)
ConfirmPiecesOf(board, pieces) == ConfirmPieces(board, pieces, 1, Len(pieces))

\* confirm_checkmate: [mate, board]
ConfirmResult(r) == [mate |-> ~r.found, board |-> r.board]
confirm_checkmate(board) ==
    ConfirmResult(ConfirmPiecesOf(board, scan_for_pieces(board.map, board.active_player)))

TurnInfo(turn, captured) == [turn |-> turn, captured |-> captured]

\* get_check_checkmate_flags: [infos, board]; the steps of one pass of its
\* loop follow, last step first

\* the flag is added, the captured piece noted, the simulated turn undone
FlagsAdd(turn, sim, ks, cc) ==
    [infos |-> <<TurnInfo([turn EXCEPT !.flags =
                              @ \cup (CASE ks = "Safe" -> {}
                                        [] ks = "Check" -> {"CHECK"}
                                        [] OTHER -> IF cc.mate THEN {"CHECKMATE"}
                                                    ELSE {"CHECK"})],
                          IF sim.state.captured = <<>> THEN 0
                          ELSE PieceOf(sim.state.captured[2]))>>,
     board |-> Unsimulate(cc.board, sim.state)]

\* the state of the opponent's king decides; SoftCheckmate is confirmed
FlagsOfState(turn, sim, ks) ==
    FlagsAdd(turn, sim, ks,
             IF ks = "SoftCheckmate" THEN confirm_checkmate(sim.board)
             ELSE [mate |-> FALSE, board |-> sim.board])

\* a turn that cannot be simulated is removed
FlagsOfSim(turn, sim) ==
    IF ~sim.ok THEN [infos |-> <<>>, board |-> sim.board]
    ELSE FlagsOfState(turn, sim, get_state(sim.board, sim.board.active_player))

\* the loop over the turns lo..hi: those of the first half, then on the
\* board they leave those of the second half
RECURSIVE FlagsOfTurns(_, _, _, _, _)
FlagsJoin(r, rest) == [infos |-> r.infos \o rest.infos, board |-> rest.board]
FlagsOfRest(turns, sps, r, lo, hi) ==
    FlagsJoin(r, FlagsOfTurns(turns, sps, r.board, lo, hi))
FlagsOfTurns(turns, sps, board, lo, hi) ==
    IF board.fault # "" \/ lo > hi THEN [infos |-> <<>>, board |-> board]
    ELSE IF lo = hi THEN FlagsOfSim(turns[lo], simulate_turn(board, sps, turns[lo]))
    ELSE FlagsOfRest(turns, sps, FlagsOfTurns(turns, sps, board, lo, (lo + hi) \div 2),
                     (lo + hi) \div 2 + 1, hi)
get_check_checkmate_flags(turns, sps, board) ==
    FlagsOfTurns(turns, sps, board, 1, Len(turns))

\* get_correct_pawn_src
get_correct_pawn_src(t_move, sps) ==
    IF HasFlag(t_move, "CAPTURE") THEN FileSquares(FileOf(sps.square)) ELSE {}

\* get_correct_non_pawn_src
CorrectSrc(possible_src, sps) ==
    IF Len(possible_src) = 1 THEN {}
    ELSE IF \A sq \in SeqToSet(possible_src) \ {sps.square} : FileOf(sq) # FileOf(sps.square)
         THEN FileSquares(FileOf(sps.square))
    ELSE IF \A sq \in SeqToSet(possible_src) \ {sps.square} : RankOf(sq) # RankOf(sps.square)
         THEN RankSquares(RankOf(sps.square))
    ELSE {sps.square}
get_correct_non_pawn_src(t_move, map, sps) ==
    CorrectSrc(possible_squares_for_dst(map, t_move.dst, sps.side, PieceMoveFrom(sps.piece)),
               sps)

\* set_correct_src
set_correct_src(infos, map, sps) ==
    [i \in 1..Len(infos) |->
       IF infos[i].turn.kind = "Move"
       THEN [infos[i] EXCEPT !.turn.src =
                IF sps.piece = PIECE_PAWN THEN get_correct_pawn_src(infos[i].turn, sps)
                ELSE get_correct_non_pawn_src(infos[i].turn, map, sps)]
       ELSE infos[i]]

\* AvailableTurn::new; squares and pieces stand for their names
AvailableTurn(src, dst, piece, captured, turn) ==
    [src |-> src, dst |-> dst, piece |-> piece, captured |-> captured, turn |-> turn]

\* gen_available_turns
gen_available_turns(infos, sps) ==
    [i \in 1..Len(infos) |->
       AvailableTurn(sps.square,
                     IF infos[i].turn.kind = "Move" THEN infos[i].turn.dst
                     ELSE get_path_king(sps.side, infos[i].turn.type).dst,
                     sps.piece, infos[i].captured, infos[i].turn)]

\* get_turns: [turns, board]
TurnsOfInfos(r, sps) ==
    [turns |-> gen_available_turns(set_correct_src(r.infos, r.board.map, sps), sps),
     board |-> r.board]
get_turns(sps, board) ==
    TurnsOfInfos(get_check_checkmate_flags(get_unchecked_turns(sps, board), sps, board), sps)

\* get_available_turns, the pieces lo..hi one after another: those of the
\* first half, then on the board they leave those of the second half
RECURSIVE TurnsOfPieces(_, _, _, _)
TurnsJoin(r, rest) == [turns |-> r.turns \o rest.turns, board |-> rest.board]
TurnsOfRest(r, player, lo, hi) == TurnsJoin(r, TurnsOfPieces(r.board, player, lo, hi))
TurnsOfPieces(board, player, lo, hi) ==
    IF board.fault # "" \/ lo > hi THEN [turns |-> <<>>, board |-> board]
    ELSE IF lo = hi THEN get_turns(player[lo], board)
    ELSE TurnsOfRest(TurnsOfPieces(board, player, lo, (lo + hi) \div 2),
                     player, (lo + hi) \div 2 + 1, hi)

\* get_available_turns: [turns, board], the board as the enumeration leaves it
TurnsOfPlayer(board, player) == TurnsOfPieces(board, player, 1, Len(player))
get_available_turns(board) ==
    TurnsOfPlayer(board, scan_for_pieces(board.map, board.active_player))

\* ------------------------------------------------------------------ play.rs (2)
\* verify_capture: "" for Ok, "panic" for the failed assertion
verify_capture(board, capture, dst) ==
    IF board.map[dst] = 0 THEN (IF capture THEN "NoCapturePiece" ELSE "")
    ELSE IF ~capture THEN "CaptureNotSet"
    ELSE IF PieceOf(board.map[dst]) = PIECE_KING THEN "panic"
    ELSE IF SideOf(board.map[dst]) = board.active_player THEN "CaptureAlly"
    ELSE ""

\* verify_pawn_capture: [err, is_enpassant]; e is what verify_capture found
PawnCaptureResult(err, is_enpassant) == [err |-> err, is_enpassant |-> is_enpassant]
\* verify_pawn_capture without the comparison of dst with the capture square
verify_enpassant_on_any_square(board, capture, dst, e) ==
    IF e = "" THEN PawnCaptureResult("", FALSE)
    ELSE IF e = "panic" \/ board.enpassant = <<>> \/ ~capture
         THEN PawnCaptureResult(e, FALSE)
    ELSE IF verify_capture(board, capture, board.enpassant[1]) # ""
         THEN PawnCaptureResult("panic", FALSE)
    ELSE PawnCaptureResult("", TRUE)

verify_enpassant(board, capture, dst, e) ==
    IF e = "" THEN PawnCaptureResult("", FALSE)
    ELSE IF e = "panic" \/ board.enpassant = <<>> \/ ~capture \/ dst # board.enpassant[2]
         THEN PawnCaptureResult(e, FALSE)
    ELSE IF verify_capture(board, capture, board.enpassant[1]) # ""
         THEN PawnCaptureResult("panic", FALSE)
    ELSE PawnCaptureResult("", TRUE)
verify_pawn_capture(board, capture, dst) ==
    verify_enpassant(board, capture, dst, verify_capture(board, capture, dst))

\* can_opponent_do_any_turns: [any, board]
CanResult(r) == [any |-> r.turns # <<>>, board |-> switch_side(r.board)]
can_opponent_do_any_turns(board) == CanResult(get_available_turns(switch_side(board)))

\* verify_check_checkmate: [err, board]
VerifyResult(err, board) == [err |-> err, board |-> board]

\* the SoftCheckmate arm: can is what can_opponent_do_any_turns found
verify_soft_checkmate(flags, can) ==
    VerifyResult(IF ~can.any /\ "CHECKMATE" \notin flags THEN "KingIsInCheckmate" ELSE "",
                 can.board)

\* the match on the state ks of the opponent's king
verify_king_state(board, flags, ks) ==
    IF ks = "Safe"
    THEN VerifyResult(IF flags \cap {"CHECK", "CHECKMATE"} # {} THEN "KingIsSafe" ELSE "",
                      board)
    ELSE IF ks = "Check"
    THEN VerifyResult(IF "CHECK" \notin flags THEN "KingIsInCheck" ELSE "", board)
    ELSE verify_soft_checkmate(flags, can_opponent_do_any_turns(board))

\* verify_check_checkmate as it would be without the look at our own king:
\* the variant that C9 has to tell from the code
verify_check_checkmate_own_king_unchecked(board, flags) ==
    verify_king_state(board, flags, get_state(board, opponent(board.active_player)))

verify_check_checkmate(board, flags) ==
    IF ~is_safe(board.map, board.king[board.active_player], board.active_player)
    THEN VerifyResult("OurKingMustBeSafe", board)
    ELSE verify_king_state(board, flags, get_state(board, opponent(board.active_player)))

PlayResult(err, board, state) == [err |-> err, board |-> board, state |-> state]

\* play_castling, after verify_check_checkmate
play_castling_verified(turn, side, state, v) ==
    IF v.err # "" THEN PlayResult(v.err, undo(v.board, state), state)
    ELSE PlayResult("",
            [v.board EXCEPT !.enpassant = <<>>,
                !.castling_rights = CastlingRights_remove(@, <<side, opposite(turn.type)>>)],
            state)

\* play_castling, rook and king moved
play_castling_moved(turn, side, state, b2) ==
    IF b2.fault # "" THEN PlayResult("panic", b2, state)
    ELSE play_castling_verified(turn, side, state, verify_check_checkmate(b2, turn.flags))

\* play_castling, after verify_castling returned e; b0 is the board without
\* the castling right
play_castling_checked(turn, side, state, b0, e) ==
    IF e # ""
    THEN PlayResult(e, [b0 EXCEPT !.castling_rights =
                                     CastlingRights_insert(@, <<side, turn.type>>)], state)
    ELSE play_castling_moved(turn, side, state,
            move_piece(move_piece(b0, get_path_rook(side, turn.type).dst,
                                  get_path_rook(side, turn.type).src),
                       get_path_king(side, turn.type).dst,
                       get_path_king(side, turn.type).src))

\* play_castling, the castling right removed
play_castling_removed(turn, side, state, b0) ==
    play_castling_checked(turn, side, state, b0, verify_castling(b0, turn.type))

\* play_castling
play_castling(board, turn) ==
    IF <<board.active_player, turn.type>> \notin board.castling_rights
    THEN PlayResult("CastlingUnavailable", board, State_new(board, turn))
    ELSE play_castling_removed(turn, board.active_player, State_new(board, turn),
            [board EXCEPT !.castling_rights =
                             CastlingRights_remove(@, <<board.active_player, turn.type>>)])

\* play_pawn, after verify_check_checkmate: on an error the board is undone
\* with the state as it is then, which holds no captured piece yet
play_pawn_verified(turn, side, src, captured_at, captured, state, v) ==
    IF v.err # "" THEN PlayResult(v.err, undo(v.board, state), state)
    ELSE PlayResult("",
            [handle_castling_status(
                 [v.board EXCEPT !.enpassant =
                     IF HasFlag(turn, "CAPTURE") THEN <<>>
                     ELSE Enpassant_try_from(src, turn.dst, side)],
                 src, turn, captured)
                EXCEPT !.fifty_move_rule = 0],
            IF captured # 0 THEN [state EXCEPT !.captured = <<captured_at, captured>>]
            ELSE state)

\* play_pawn: the pawn captured en passant is taken off the board
play_pawn_take(board, is_enpassant, b1) ==
    IF is_enpassant THEN [b1 EXCEPT !.map[board.enpassant[1]] = 0] ELSE b1

\* play_pawn: the promoted piece is put on dst
play_pawn_promote(turn, side, b) ==
    IF turn.promotion # 0
    THEN [b EXCEPT !.map[turn.dst] = u8_from_figure(turn.promotion, side)]
    ELSE b

\* play_pawn, the pawn moved (b1)
play_pawn_moved(board, turn, src, is_enpassant, b1) ==
    IF b1.fault # "" \/ (is_enpassant /\ board.map[turn.dst] # 0)
    THEN PlayResult("panic", Panic(b1), State_new(board, turn))
    ELSE play_pawn_verified(turn, board.active_player, src,
            IF is_enpassant THEN board.enpassant[1] ELSE turn.dst,
            IF is_enpassant THEN b1.map[board.enpassant[1]] ELSE board.map[turn.dst],
            [State_new(board, turn) EXCEPT !.moving_piece_src = src],
            verify_check_checkmate(
                play_pawn_promote(turn, board.active_player,
                                  play_pawn_take(board, is_enpassant, b1)),
                turn.flags))

\* play_pawn, after verify_pawn_capture returned vp
play_pawn_capture(board, turn, src, vp) ==
    IF vp.err = "panic" THEN PlayResult("panic", Panic(board), State_new(board, turn))
    ELSE IF vp.err # "" THEN PlayResult(vp.err, board, State_new(board, turn))
    ELSE play_pawn_moved(board, turn, src, vp.is_enpassant,
                         move_piece(board, turn.dst, src))

\* play_pawn, after get_exact_src returned src
play_pawn_src(board, turn, src) ==
    IF src = NoSquare THEN PlayResult("MovingPieceNotFound", board, State_new(board, turn))
    ELSE play_pawn_capture(board, turn, src,
            verify_pawn_capture(board, HasFlag(turn, "CAPTURE"), turn.dst))

\* play_pawn with the source looked up before the form of the turn is tested
play_pawn_source_first(board, turn) ==
    IF get_exact_src(possible_squares_for_dst(board.map, turn.dst, board.active_player,
                         IF HasFlag(turn, "CAPTURE") THEN PM_PAWN_CAPTURE
                         ELSE PM_PAWN_NORMAL),
                     turn.src) = NoSquare
    THEN PlayResult("MovingPieceNotFound", board, State_new(board, turn))
    ELSE IF (turn.src = {}) # (~HasFlag(turn, "CAPTURE"))
    THEN PlayResult("InvalidPawnMovement", board, State_new(board, turn))
    ELSE play_pawn_src(board, turn,
            get_exact_src(possible_squares_for_dst(board.map, turn.dst, board.active_player,
                              IF HasFlag(turn, "CAPTURE") THEN PM_PAWN_CAPTURE
                              ELSE PM_PAWN_NORMAL),
                          turn.src))

\* play_pawn
play_pawn(board, turn) ==
    IF (turn.src = {}) # (~HasFlag(turn, "CAPTURE"))
    THEN PlayResult("InvalidPawnMovement", board, State_new(board, turn))
    ELSE play_pawn_src(board, turn,
            get_exact_src(possible_squares_for_dst(board.map, turn.dst, board.active_player,
                              IF HasFlag(turn, "CAPTURE") THEN PM_PAWN_CAPTURE
                              ELSE PM_PAWN_NORMAL),
                          turn.src))

\* play_piece, after verify_check_checkmate, without the clearing of the
\* en-passant record
play_piece_verified_enpassant_kept(turn, src, captured, state, v) ==
    IF v.err # "" THEN PlayResult(v.err, undo(v.board, state), state)
    ELSE PlayResult("", handle_castling_status(v.board, src, turn, captured), state)

\* play_piece, after verify_check_checkmate
play_piece_verified(turn, src, captured, state, v) ==
    IF v.err # "" THEN PlayResult(v.err, undo(v.board, state), state)
    ELSE PlayResult("",
            handle_castling_status([v.board EXCEPT !.enpassant = <<>>], src, turn, captured),
            state)

\* play_piece, the piece moved (b1); a capture resets the fifty-move counter
play_piece_moved(board, turn, src, captured, b1) ==
    IF b1.fault # "" THEN PlayResult("panic", b1, State_new(board, turn))
    ELSE play_piece_verified(turn, src, captured,
            [State_new(board, turn) EXCEPT
                !.moving_piece_src = src,
                !.captured = IF captured # 0 THEN <<turn.dst, captured>> ELSE <<>>],
            verify_check_checkmate(
                IF captured # 0 THEN [b1 EXCEPT !.fifty_move_rule = 0] ELSE b1,
                turn.flags))

\* play_piece, after verify_capture returned e
play_piece_capture(board, turn, src, e) ==
    IF e = "panic" THEN PlayResult("panic", Panic(board), State_new(board, turn))
    ELSE IF e # "" THEN PlayResult(e, board, State_new(board, turn))
    ELSE play_piece_moved(board, turn, src, board.map[turn.dst],
                          move_piece(board, turn.dst, src))

\* play_piece, after get_exact_src returned src
play_piece_src(board, turn, src) ==
    IF src = NoSquare THEN PlayResult("MovingPieceNotFound", board, State_new(board, turn))
    ELSE play_piece_capture(board, turn, src,
                            verify_capture(board, HasFlag(turn, "CAPTURE"), turn.dst))

\* play_piece
play_piece(board, turn) ==
    play_piece_src(board, turn,
        get_exact_src(possible_squares_for_dst(board.map, turn.dst, board.active_player,
                                               PieceMoveFrom(turn.who)),
                      turn.src))

\* play_move
play_move(board, turn) ==
    IF turn.who = PIECE_PAWN THEN play_pawn(board, turn) ELSE play_piece(board, turn)

\* Turn::is_checkmate
is_checkmate(turn) == HasFlag(turn, "CHECKMATE")

Victory(side) == IF side = SIDE_WHITE THEN "Victory(White)" ELSE "Victory(Black)"

FIFTY_MOVE_LIMIT == 100

\* next_turn with the end conditions looked at in the reverse order: the
\* fifty-move draw stands over the repetition, and both over the '#' mark
next_turn_pushed_order_reversed(turn, state, b3) ==
    PlayResult("",
        switch_side([b3 EXCEPT !.gamestate =
            IF b3.gamestate # "Ongoing" THEN b3.gamestate
            ELSE IF hash_state_push_result(b3) # "Ongoing" THEN hash_state_push_result(b3)
            ELSE IF is_checkmate(turn) THEN Victory(b3.active_player)
            ELSE b3.gamestate]),
        state)

\* next_turn, the position pushed (b3): the game state the push returns, the
\* victory of a turn marked '#', the switch of sides
next_turn_pushed(turn, state, b3) ==
    PlayResult("",
        switch_side([b3 EXCEPT !.gamestate =
            IF is_checkmate(turn) THEN Victory(b3.active_player)
            ELSE hash_state_push_result(b3)]),
        state)

\* next_turn, the fifty-move counter incremented (b1)
next_turn_counted(turn, state, b1) ==
    next_turn_pushed(turn, state,
        hash_state_push(IF b1.fifty_move_rule >= FIFTY_MOVE_LIMIT
                        THEN [b1 EXCEPT !.gamestate = "DrawFiftyMoveRule"] ELSE b1))

\* next_turn, after play_castling or play_move returned r
next_turn_played(turn, r) ==
    IF r.err # "" THEN r
    ELSE next_turn_counted(turn, r.state, [r.board EXCEPT !.fifty_move_rule = @ + 1])

\* next_turn as it would be without the look at the game state: the variant
\* that C10 has to tell from the code
next_turn_game_state_unchecked(board, turn) ==
    IF turn.kind = "Unparsable"
    THEN PlayResult("ParsingTurnFailed", board, State_new(board, turn))
    ELSE next_turn_played(turn, IF turn.kind = "Castling" THEN play_castling(board, turn)
                                ELSE play_move(board, turn))

\* next_turn: the GameOver error carries the game state it found
next_turn(board, turn) ==
    IF board.gamestate # "Ongoing"
    THEN PlayResult("GameOver", board, State_new(board, turn))
    ELSE IF turn.kind = "Unparsable"
    THEN PlayResult("ParsingTurnFailed", board, State_new(board, turn))
    ELSE next_turn_played(turn, IF turn.kind = "Castling" THEN play_castling(board, turn)
                                ELSE play_move(board, turn))

\* ------------------------------------------------------------------ builder.rs
FileIndex == [a |-> 0, b |-> 1, c |-> 2, d |-> 3, e |-> 4, f |-> 5, g |-> 6, h |-> 7]
\* a token "<square>,<side>,<piece>" of a setup string, parsed
W(file, rank, piece) == <<Sq(FileIndex[file], rank - 1), piece, SIDE_WHITE>>
B(file, rank, piece) == <<Sq(FileIndex[file], rank - 1), piece, SIDE_BLACK>>

\* A setup string: its text (by name) and the tokens it parses to
Setup(text, pieces) == [text |-> text, pieces |-> pieces]

\* NORMAL_SETUP of game.rs
NormalPieces ==
    {W("a", 1, PIECE_ROOK), W("b", 1, PIECE_KNIGHT), W("c", 1, PIECE_BISHOP),
     W("d", 1, PIECE_QUEEN), W("e", 1, PIECE_KING), W("f", 1, PIECE_BISHOP),
     W("g", 1, PIECE_KNIGHT), W("h", 1, PIECE_ROOK),
     B("a", 8, PIECE_ROOK), B("b", 8, PIECE_KNIGHT), B("c", 8, PIECE_BISHOP),
     B("d", 8, PIECE_QUEEN), B("e", 8, PIECE_KING), B("f", 8, PIECE_BISHOP),
     B("g", 8, PIECE_KNIGHT), B("h", 8, PIECE_ROOK)}
    \cup {<<Sq(fl, 1), PIECE_PAWN, SIDE_WHITE>> : fl \in 0..7}
    \cup {<<Sq(fl, 6), PIECE_PAWN, SIDE_BLACK>> : fl \in 0..7}
NORMAL_SETUP == Setup("NORMAL_SETUP", NormalPieces)

\* setup_map_and_kings, for a setup the parser accepts: no square twice, one
\* king a side
setup_map(pieces) ==
    [sq \in Squares |->
        IF \E t \in pieces : t[1] = sq
        THEN LET t == CHOOSE t \in pieces : t[1] = sq IN u8_from_figure(t[2], t[3])
        ELSE 0] @@ <<>>
setup_king(pieces, s) == (CHOOSE t \in pieces : t[2] = PIECE_KING /\ t[3] = s)[1]
setup_kings(pieces) ==
    (SIDE_WHITE :> setup_king(pieces, SIDE_WHITE)) @@ (SIDE_BLACK :> setup_king(pieces, SIDE_BLACK))

Game(board, history, available_turns) ==
    [board |-> board, history |-> history, available_turns |-> available_turns]

\* builder::create
create_enumerated(r) == Game(r.board, <<>>, r.turns)

\* builder::create with every castling right for every setup
create_rights_for_all(setup) ==
    create_enumerated(get_available_turns(
        [map |-> setup_map(setup.pieces),
         enpassant |-> <<>>,
         king |-> setup_kings(setup.pieces),
         castling_rights |-> CastlingRights_new("All"),
         active_player |-> SIDE_WHITE,
         gamestate |-> "Ongoing",
         fifty_move_rule |-> 0,
         state_hashes |-> <<>>,
         fault |-> "",
         overflow |-> FALSE]))

create(setup) ==
    create_enumerated(get_available_turns(
        [map |-> setup_map(setup.pieces),
         enpassant |-> <<>>,
         king |-> setup_kings(setup.pieces),
         castling_rights |-> IF setup.text # NORMAL_SETUP.text THEN CastlingRights_new("None")
                             ELSE CastlingRights_new("All"),
         active_player |-> SIDE_WHITE,
         gamestate |-> "Ongoing",
         fifty_move_rule |-> 0,
         state_hashes |-> <<>>,
         fault |-> "",
         overflow |-> FALSE]))

\* The setup string as text: its tokens in order, a token being the fields
\* that its commas separate.
\* Square::try_from of chess_notation_parser: the squares by name, a1 first
SquareNames ==
    <<"a1", "b1", "c1", "d1", "e1", "f1", "g1", "h1",
      "a2", "b2", "c2", "d2", "e2", "f2", "g2", "h2",
      "a3", "b3", "c3", "d3", "e3", "f3", "g3", "h3",
      "a4", "b4", "c4", "d4", "e4", "f4", "g4", "h4",
      "a5", "b5", "c5", "d5", "e5", "f5", "g5", "h5",
      "a6", "b6", "c6", "d6", "e6", "f6", "g6", "h6",
      "a7", "b7", "c7", "d7", "e7", "f7", "g7", "h7",
      "a8", "b8", "c8", "d8", "e8", "f8", "g8", "h8">>
Square_try_from(field) ==
    IF \E i \in DOMAIN SquareNames : SquareNames[i] = field
    THEN (CHOOSE i \in DOMAIN SquareNames : SquareNames[i] = field) - 1
    ELSE NoSquare

\* Side::try_from, 0 for an error
Side_try_from(field) ==
    IF field \in {"w", "W"} THEN SIDE_WHITE
    ELSE IF field \in {"b", "B"} THEN SIDE_BLACK
    ELSE 0

\* Piece::try_from of chess_notation_parser, 0 for an error
Piece_try_from(field) ==
    CASE field = "P" -> PIECE_PAWN [] field = "R" -> PIECE_ROOK
      [] field = "N" -> PIECE_KNIGHT [] field = "B" -> PIECE_BISHOP
      [] field = "Q" -> PIECE_QUEEN [] field = "K" -> PIECE_KING
      [] OTHER -> 0

\* parse_sps: [err, sps]; next() on the fields of a token that has no more
\* is unwrapped and panics
SpsResult(err, sps) == [err |-> err, sps |-> sps]
parse_sps(token) ==
    IF Square_try_from(token[1]) = NoSquare THEN SpsResult("Square::try_from", <<>>)
    ELSE IF Len(token) < 2 THEN SpsResult("panic", <<>>)
    ELSE IF Side_try_from(token[2]) = 0 THEN SpsResult("Unknown character", <<>>)
    ELSE IF Len(token) < 3 THEN SpsResult("panic", <<>>)
    ELSE IF Piece_try_from(token[3]) = 0 THEN SpsResult("Piece::try_from", <<>>)
    ELSE IF Len(token) > 3
         THEN SpsResult("BoardBuilder: Invalid numbers of commas received", <<>>)
    ELSE SpsResult("", <<Square_try_from(token[1]), Piece_try_from(token[3]),
                         Side_try_from(token[2])>>)

\* setup_map_and_kings, from the i-th token on: [err, pieces]; kings are the
\* sides of the king cache
RECURSIVE setup_tokens(_, _, _, _)
SetupResult(err, pieces) == [err |-> err, pieces |-> pieces]
setup_token(tokens, i, pieces, kings, p) ==
    IF p.err # "" THEN SetupResult(p.err, {})
    ELSE IF p.sps[2] = PIECE_KING /\ p.sps[3] \in kings
         THEN SetupResult("Player cannot have more than one king", {})
    ELSE IF \E t \in pieces : t[1] = p.sps[1] THEN SetupResult("Square already occupied", {})
    ELSE setup_tokens(tokens, i + 1, pieces \cup {p.sps},
                      IF p.sps[2] = PIECE_KING THEN kings \cup {p.sps[3]} ELSE kings)
setup_tokens(tokens, i, pieces, kings) ==
    IF i > Len(tokens)
    THEN (IF Cardinality(kings) = 2 THEN SetupResult("", pieces)
          ELSE SetupResult("Game needs to have two kings", {}))
    ELSE setup_token(tokens, i, pieces, kings, parse_sps(tokens[i]))
setup_map_and_kings(tokens) == setup_tokens(tokens, 1, {}, {})

\* No Game: construction returned an error, or panicked
NoGame(err) == Game([fault |-> err], <<>>, <<>>)

\* Game::new on the text of a custom setup: [err, game]
Game_new_parsed(r) ==
    IF r.err # "" THEN [err |-> r.err, game |-> NoGame(r.err)]
    ELSE [err |-> "", game |-> create(Setup("tokens", r.pieces))]
Game_new(tokens) == Game_new_parsed(setup_map_and_kings(tokens))

\* ------------------------------------------------------------------ game.rs
\* Game::check_few_draw_conditions
check_few_draw_conditions(board, available_turns) ==
    IF available_turns = <<>> THEN [board EXCEPT !.gamestate = "Stalemate"]
    ELSE IF \/ map_len(board.map) = 2
            \/ /\ map_len(board.map) = 3
               /\ \E sq \in Squares : PieceOf(board.map[sq]) \in {PIECE_KNIGHT, PIECE_BISHOP}
         THEN [board EXCEPT !.gamestate = "DrawInsufficientMatingMaterial"]
         ELSE board

CallResult(err, gs, game) == [err |-> err, gs |-> gs, game |-> game]

\* Game::play_turn, the draw conditions checked (b1): a game over empties the
\* available turns
play_turn_checked(history, turns, b1) ==
    CallResult("", b1.gamestate,
               Game(b1, history, IF b1.gamestate # "Ongoing" THEN <<>> ELSE turns))

\* Game::play_turn, the available turns enumerated (av)
play_turn_enumerated(history, av) ==
    play_turn_checked(history, av.turns, check_few_draw_conditions(av.board, av.turns))

\* Game::play_turn, after next_turn returned r: an error leaves the history
\* alone, a game over returns before the available turns are touched
play_turn_next(game, r) ==
    IF r.err # ""
    THEN CallResult(r.err, r.board.gamestate, [game EXCEPT !.board = r.board])
    ELSE IF r.board.gamestate # "Ongoing"
    THEN CallResult("", r.board.gamestate,
                    Game(r.board, Append(game.history, r.state), game.available_turns))
    ELSE play_turn_enumerated(Append(game.history, r.state), get_available_turns(r.board))

\* Game::play_turn: err is "" for Ok; gs is the Gamestate returned, or the one
\* a GameOver error carries
play_turn(game, turn) == play_turn_next(game, next_turn(game.board, turn))

\* Game::undo_turn, the available turns enumerated (av)
undo_turn_enumerated(history, av) ==
    CallResult("", av.board.gamestate, Game(av.board, history, av.turns))

\* Game::undo_turn
undo_turn(game) ==
    IF game.history = <<>> THEN CallResult("UndoNotAvailable", game.board.gamestate, game)
    ELSE undo_turn_enumerated(
            SubSeq(game.history, 1, Len(game.history) - 1),
            get_available_turns(undo(hash_state_pop(switch_side(game.board)),
                                     game.history[Len(game.history)])))

(***************************************************************************)
(* The program as a state machine: one Game, driven through its facade.    *)
(***************************************************************************)

\* Bound on the number of facade calls made on a Game of a custom setup
MaxCalls == 2

\* Bound on the number of facade calls made on a Game of the normal setup
MaxLine == 9

\* Setup strings the Game is created from.
\* After e4+ the black king has no flight and only f4xe3 e.p. answers
S_EP_REPLY ==
    Setup("ep_reply", {W("h", 1, PIECE_KING), W("e", 2, PIECE_PAWN), W("d", 4, PIECE_PAWN),
                       W("c", 3, PIECE_PAWN), W("d", 3, PIECE_PAWN),
                       B("d", 5, PIECE_KING), B("c", 6, PIECE_PAWN), B("d", 6, PIECE_PAWN),
                       B("e", 6, PIECE_PAWN), B("f", 4, PIECE_PAWN)})
\* After e4+ the black king has no flight and f5xe4 answers; dxe5 captures
S_SOFT_REPLY ==
    Setup("soft_reply", {W("h", 1, PIECE_KING), W("e", 2, PIECE_PAWN), W("d", 4, PIECE_PAWN),
                         W("c", 3, PIECE_PAWN), W("d", 3, PIECE_PAWN),
                         B("d", 5, PIECE_KING), B("c", 6, PIECE_PAWN), B("d", 6, PIECE_PAWN),
                         B("e", 6, PIECE_PAWN), B("e", 5, PIECE_PAWN), B("f", 5, PIECE_PAWN)})
\* g7 and f8=Q mate at once
S_MATE ==
    Setup("mate", {W("h", 6, PIECE_KING), W("f", 7, PIECE_PAWN), W("g", 6, PIECE_PAWN),
                   B("h", 8, PIECE_KING)})
\* After b4, Ba4 mates; a2 stands next to the square b3 the pawn passed
S_STALE_EP ==
    Setup("stale_ep", {W("d", 1, PIECE_KING), W("c", 1, PIECE_BISHOP), W("e", 1, PIECE_BISHOP),
                       W("d", 2, PIECE_PAWN), W("e", 2, PIECE_PAWN), W("b", 2, PIECE_PAWN),
                       W("a", 2, PIECE_PAWN),
                       B("h", 8, PIECE_KING), B("e", 8, PIECE_BISHOP)})
\* White has no legal turn and is not in check
S_STALEMATE ==
    Setup("stalemate", {W("a", 1, PIECE_KING), B("c", 2, PIECE_KING), B("b", 3, PIECE_PAWN)})
\* After a4, bxa3 e.p. is legal; after e4, dxe3 e.p. opens the fourth rank
\* from the rook to the black king
S_EP_PIN ==
    Setup("ep_pin", {W("h", 1, PIECE_KING), W("c", 4, PIECE_ROOK), W("c", 3, PIECE_PAWN),
                     W("c", 5, PIECE_PAWN), W("a", 2, PIECE_PAWN), W("e", 2, PIECE_PAWN),
                     B("f", 4, PIECE_KING), B("b", 4, PIECE_PAWN), B("d", 4, PIECE_PAWN)})
Setups == {NORMAL_SETUP, S_EP_REPLY, S_SOFT_REPLY, S_MATE, S_STALE_EP, S_STALEMATE, S_EP_PIN}

\* The check suffixes a turn string can carry: none, '+', '#'
CheckFlags == {{}, {"CHECK"}, {"CHECKMATE"}}

\* The source hints a turn string can carry for these candidates
Hints(cands) ==
    {{}} \cup {FileSquares(FileOf(c)) : c \in cands} \cup {{c} : c \in cands}

\* The promotions tried for a move of who to dst
Promotions(who, dst) ==
    IF who = PIECE_PAWN /\ RankOf(dst) \in {0, 7} THEN {0, PIECE_QUEEN, PIECE_KNIGHT} ELSE {0}

\* The parsed turn strings tried on a game: every move of a piece of the
\* active player that the movement patterns allow, with and without the
\* capture mark, with every check suffix and source hint; both castlings;
\* a move no piece can make; a string that does not parse
MoveInputs(board) ==
    UNION {LET pm == IF who = PIECE_PAWN
                     THEN (IF cap THEN PM_PAWN_CAPTURE ELSE PM_PAWN_NORMAL)
                     ELSE PieceMoveFrom(who)
               cands == SeqToSet(possible_squares_for_dst(board.map, dst,
                                                          board.active_player, pm))
           IN IF cands = {} THEN {}
              ELSE {turn_move(who, dst, f \cup (IF cap THEN {"CAPTURE"} ELSE {}), h, p) :
                        f \in CheckFlags, h \in Hints(cands), p \in Promotions(who, dst)}
           : who \in PIECE_PAWN..PIECE_KING, dst \in Squares, cap \in BOOLEAN}
FreeInputs(g) ==
    MoveInputs(g.board)
    \cup {turn_castling(t, {}) : t \in {"Long", "Short"}}
    \cup {turn_move(PIECE_KNIGHT, g.board.king[g.board.active_player], {}, {}, 0)}
    \cup {UnparsableTurn}

\* The opening played from the normal setup: f4 e5 Nh3 Bc5 g3 Nf6 Bg2 0-0,
\* after which the black bishop on c5 attacks g1, where White's king would
\* castle to
OPENING ==
    <<turn_move(PIECE_PAWN, Sq(5, 3), {}, {}, 0), turn_move(PIECE_PAWN, Sq(4, 4), {}, {}, 0),
      turn_move(PIECE_KNIGHT, Sq(7, 2), {}, {}, 0), turn_move(PIECE_BISHOP, Sq(2, 4), {}, {}, 0),
      turn_move(PIECE_PAWN, Sq(6, 2), {}, {}, 0), turn_move(PIECE_KNIGHT, Sq(5, 5), {}, {}, 0),
      turn_move(PIECE_BISHOP, Sq(6, 1), {}, {}, 0), turn_castling("Short", {})>>

\* e4 d5 Bb5+, after which Black is in check with both castling rights
CHECKED ==
    <<turn_move(PIECE_PAWN, Sq(4, 3), {}, {}, 0), turn_move(PIECE_PAWN, Sq(3, 4), {}, {}, 0),
      turn_move(PIECE_BISHOP, Sq(1, 4), {"CHECK"}, {}, 0)>>

\* e4 d5 Ke2: the white king moves
KING_MOVED ==
    <<turn_move(PIECE_PAWN, Sq(4, 3), {}, {}, 0), turn_move(PIECE_PAWN, Sq(3, 4), {}, {}, 0),
      turn_move(PIECE_KING, Sq(4, 1), {}, {}, 0)>>

\* h4 a5 Rh3 Ra6 Rg3 Rg6 Rxg6: rooks leave h1 and a8, a rook moves that is on
\* no corner, a rook is captured on g6
ROOKS ==
    <<turn_move(PIECE_PAWN, Sq(7, 3), {}, {}, 0), turn_move(PIECE_PAWN, Sq(0, 4), {}, {}, 0),
      turn_move(PIECE_ROOK, Sq(7, 2), {}, {}, 0), turn_move(PIECE_ROOK, Sq(0, 5), {}, {}, 0),
      turn_move(PIECE_ROOK, Sq(6, 2), {}, {}, 0), turn_move(PIECE_ROOK, Sq(6, 5), {}, {}, 0),
      turn_move(PIECE_ROOK, Sq(6, 5), {"CAPTURE"}, {}, 0)>>

\* g3 b5 Bg2 h6 Bxa8: the rook on a8 is captured
CORNER ==
    <<turn_move(PIECE_PAWN, Sq(6, 2), {}, {}, 0), turn_move(PIECE_PAWN, Sq(1, 4), {}, {}, 0),
      turn_move(PIECE_BISHOP, Sq(6, 1), {}, {}, 0), turn_move(PIECE_PAWN, Sq(7, 5), {}, {}, 0),
      turn_move(PIECE_BISHOP, Sq(0, 7), {"CAPTURE"}, {}, 0)>>

\* g4 h5 gxh5 a6 h6 a5 hxg7 a4 gxh8=Q: the rook on h8 is captured by a pawn
\* that promotes
PROMOTED ==
    <<turn_move(PIECE_PAWN, Sq(6, 3), {}, {}, 0), turn_move(PIECE_PAWN, Sq(7, 4), {}, {}, 0),
      turn_move(PIECE_PAWN, Sq(7, 4), {"CAPTURE"}, FileSquares(6), 0),
      turn_move(PIECE_PAWN, Sq(0, 5), {}, {}, 0),
      turn_move(PIECE_PAWN, Sq(7, 5), {}, {}, 0), turn_move(PIECE_PAWN, Sq(0, 4), {}, {}, 0),
      turn_move(PIECE_PAWN, Sq(6, 6), {"CAPTURE"}, FileSquares(7), 0),
      turn_move(PIECE_PAWN, Sq(0, 3), {}, {}, 0),
      turn_move(PIECE_PAWN, Sq(7, 7), {"CAPTURE"}, FileSquares(6), PIECE_QUEEN)>>

\* gxh8=Q+ after g4 h5 gxh5 a6 h6 a5 hxg7 a4: the queen would give no check
TakesRookWithCheck ==
    turn_move(PIECE_PAWN, Sq(7, 7), {"CAPTURE", "CHECK"}, FileSquares(6), PIECE_QUEEN)

\* g4 h5 gxh5 a6 h6 a5 hxg7 a4 b3 Bxg7 c3 Bh8 d3 Nf6 e3 0-0: Black castles
\* short with its bishop on h8
LOST ==
    SubSeq(PROMOTED, 1, 8)
    \o <<turn_move(PIECE_PAWN, Sq(1, 2), {}, {}, 0),
         turn_move(PIECE_BISHOP, Sq(6, 6), {"CAPTURE"}, {}, 0),
         turn_move(PIECE_PAWN, Sq(2, 2), {}, {}, 0), turn_move(PIECE_BISHOP, Sq(7, 7), {}, {}, 0),
         turn_move(PIECE_PAWN, Sq(3, 2), {}, {}, 0), turn_move(PIECE_KNIGHT, Sq(5, 5), {}, {}, 0),
         turn_move(PIECE_PAWN, Sq(4, 2), {}, {}, 0), turn_castling("Short", {})>>

\* g4 h5 gxh5 a6 h6 a5 hxg7 a4 b3 Bxg7 c3 Nf6 d3: bishop and knight leave
\* f8 and g8 while h8 holds the rook or nothing
EMPTY ==
    SubSeq(PROMOTED, 1, 8)
    \o <<turn_move(PIECE_PAWN, Sq(1, 2), {}, {}, 0),
         turn_move(PIECE_BISHOP, Sq(6, 6), {"CAPTURE"}, {}, 0),
         turn_move(PIECE_PAWN, Sq(2, 2), {}, {}, 0), turn_move(PIECE_KNIGHT, Sq(5, 5), {}, {}, 0),
         turn_move(PIECE_PAWN, Sq(3, 2), {}, {}, 0)>>

\* g4 h5 gxh5 a6 h6 a5 hxg7 a4 gxh8=R a3 Rh7: a white rook leaves h8
UNDERPROMOTED ==
    SubSeq(PROMOTED, 1, 8)
    \o <<turn_move(PIECE_PAWN, Sq(7, 7), {"CAPTURE"}, FileSquares(6), PIECE_ROOK),
         turn_move(PIECE_PAWN, Sq(0, 2), {}, {}, 0), turn_move(PIECE_ROOK, Sq(7, 6), {}, {}, 0)>>

\* Nf3 Nf6 Ng1 Ng8 Nf3 Nf6 Ng1 Ng8: the knights go out and back twice
RETURNED ==
    <<turn_move(PIECE_KNIGHT, Sq(5, 2), {}, {}, 0), turn_move(PIECE_KNIGHT, Sq(5, 5), {}, {}, 0),
      turn_move(PIECE_KNIGHT, Sq(6, 0), {}, {}, 0), turn_move(PIECE_KNIGHT, Sq(6, 7), {}, {}, 0),
      turn_move(PIECE_KNIGHT, Sq(5, 2), {}, {}, 0), turn_move(PIECE_KNIGHT, Sq(5, 5), {}, {}, 0),
      turn_move(PIECE_KNIGHT, Sq(6, 0), {}, {}, 0), turn_move(PIECE_KNIGHT, Sq(6, 7), {}, {}, 0)>>

\* The scripts longer than MaxLine
LongLines == {LOST, EMPTY, UNDERPROMOTED}

\* Bound on the number of facade calls made on a Game that follows one of
\* them
MaxLost == 19

\* setup is the setup string the Game was created from; past is the stack of
\* the engine states that the accepted and not undone turns were played on
\* and led to, the state after construction at its bottom; script is the
\* game that is played from the normal setup
VARIABLES game, result, calls, setup, past, script
vars == <<game, result, calls, setup, past, script>>

\* The turns of the history, oldest first
Played(g) == [i \in DOMAIN g.history |-> g.history[i].turn]

\* The next turn of the line, if the turns played so far are its beginning
LineNext(line, g) ==
    IF Len(g.history) < Len(line) /\ Played(g) = SubSeq(line, 1, Len(g.history))
    THEN {line[Len(g.history) + 1]} ELSE {}

\* The parsed turn strings tried on a game of the normal setup: the next turn
\* of the script, both castlings, bare and marked '+', and gxh8=Q+ where LOST
\* and EMPTY leave PROMOTED
LineInputs(g) ==
    LineNext(script, g)
    \cup {turn_castling(t, f) : t \in {"Long", "Short"}, f \in {{}, {"CHECK"}}}
    \cup (IF script \in {LOST, EMPTY} /\ Len(g.history) = 8 THEN {TakesRookWithCheck} ELSE {})

\* Bound on the number of facade calls made on a Game of the quiet setup
MaxQuiet == 101

\* A king and a pawn against a king, the kings far apart
S_QUIET ==
    Setup("quiet", {W("a", 1, PIECE_KING), W("h", 2, PIECE_PAWN), B("c", 8, PIECE_KING)})

\* The squares the white king walks in turn, b1 b2 a1, and the black king,
\* d8 e8 f8 f7 f6 e6 d6 c6 c7 c8: no position comes a third time within
\* fifty moves of each
WhiteRing == <<Sq(1, 0), Sq(1, 1), Sq(0, 0)>>
BlackRing == <<Sq(3, 7), Sq(4, 7), Sq(5, 7), Sq(5, 6), Sq(5, 5),
               Sq(4, 5), Sq(3, 5), Sq(2, 5), Sq(2, 6), Sq(2, 7)>>

\* The i-th turn of the quiet game: the kings walk their rings
QuietTurn(i) ==
    IF i % 2 = 1
    THEN turn_move(PIECE_KING, WhiteRing[(((i - 1) \div 2) % Len(WhiteRing)) + 1], {}, {}, 0)
    ELSE turn_move(PIECE_KING, BlackRing[(((i - 2) \div 2) % Len(BlackRing)) + 1], {}, {}, 0)

\* The parsed turn strings tried on a game of the quiet setup: the next turn
\* of the kings' walk, and h3 as the first turn
QuietInputs(g) ==
    {QuietTurn(Len(g.history) + 1)}
    \cup (IF g.history = <<>> THEN {turn_move(PIECE_PAWN, Sq(7, 2), {}, {}, 0)} ELSE {})

\* Bound on the number of facade calls made on a Game of the walk setup or
\* of the hundred setup
MaxWalk == 101

\* The pieces of the quiet setup, for a game whose 100th half-move brings a
\* position for the third time
S_WALK ==
    Setup("walk", {W("a", 1, PIECE_KING), W("h", 2, PIECE_PAWN), B("c", 8, PIECE_KING)})

\* The white king walks b1 b2 a2 a1 in turn.  The black king first walks
\* b8 a8 a7 a6 b6 c6 d6 d7 d8 and then e7 f7 g7 g8 f8 in turn: the position
\* after the 20th half-move comes again after the 60th and the 100th, and no
\* position comes a third time before
WhiteWalk == <<Sq(1, 0), Sq(1, 1), Sq(0, 1), Sq(0, 0)>>
BlackPath == <<Sq(1, 7), Sq(0, 7), Sq(0, 6), Sq(0, 5), Sq(1, 5),
               Sq(2, 5), Sq(3, 5), Sq(3, 6), Sq(3, 7)>>
BlackWalk == <<Sq(4, 6), Sq(5, 6), Sq(6, 6), Sq(6, 7), Sq(5, 7)>>

\* The i-th turn of the walk
WalkTurn(i) ==
    IF i % 2 = 1
    THEN turn_move(PIECE_KING, WhiteWalk[(((i - 1) \div 2) % Len(WhiteWalk)) + 1], {}, {}, 0)
    ELSE IF i \div 2 <= Len(BlackPath)
    THEN turn_move(PIECE_KING, BlackPath[i \div 2], {}, {}, 0)
    ELSE turn_move(PIECE_KING,
                   BlackWalk[(((i \div 2) - Len(BlackPath) - 1) % Len(BlackWalk)) + 1], {}, {}, 0)

\* The parsed turn strings tried on a game of the walk setup
WalkInputs(g) == {WalkTurn(Len(g.history) + 1)}

\* The pieces of a game whose 100th half-move is a checkmate: Black's rook
\* mates on h1 when White's king stands on a1 behind its pawns
S_HUNDRED ==
    Setup("hundred", {W("a", 1, PIECE_KING), W("a", 2, PIECE_PAWN), W("b", 2, PIECE_PAWN),
                      B("c", 8, PIECE_KING), B("h", 8, PIECE_ROOK)})

\* The black king walks d8 e8 f8 g8 g7 f7 e7 d7 c7 b6 a7 b8 c8 in turn while
\* the white king goes to and fro between b1 and a1: no position comes a
\* third time within fifty moves of each
BlackRound == <<Sq(3, 7), Sq(4, 7), Sq(5, 7), Sq(6, 7), Sq(6, 6), Sq(5, 6), Sq(4, 6),
                Sq(3, 6), Sq(2, 6), Sq(1, 5), Sq(0, 6), Sq(1, 7), Sq(2, 7)>>

\* The i-th turn of that game: the 100th is Rh1#
HundredTurn(i) ==
    IF i % 2 = 1
    THEN turn_move(PIECE_KING, IF i % 4 = 1 THEN Sq(1, 0) ELSE Sq(0, 0), {}, {}, 0)
    ELSE IF i = FIFTY_MOVE_LIMIT
    THEN turn_move(PIECE_ROOK, Sq(7, 0), {"CHECKMATE"}, {}, 0)
    ELSE turn_move(PIECE_KING, BlackRound[(((i - 2) \div 2) % Len(BlackRound)) + 1], {}, {}, 0)

\* The parsed turn strings tried on a game of that setup
HundredInputs(g) == {HundredTurn(Len(g.history) + 1)}

\* Bound on the number of facade calls made on a Game of the repeat setup
MaxRepeat == 10

\* The pieces of the quiet setup, for a game in which the kings go to and fro
S_REPEAT ==
    Setup("repeat", {W("a", 1, PIECE_KING), W("h", 2, PIECE_PAWN), B("c", 8, PIECE_KING)})

\* The square a king on one of the squares a and b goes to: the other one
ToAndFro(king, a, b) == turn_move(PIECE_KING, IF king = a THEN b ELSE a, {}, {}, 0)

\* The parsed turn strings tried on a game of the repeat setup: the white
\* king goes to and fro between a1 and b1, the black king between c8 and d8;
\* h3 as the first turn
RepeatInputs(g) ==
    {IF g.board.active_player = SIDE_WHITE
     THEN ToAndFro(g.board.king[SIDE_WHITE], Sq(0, 0), Sq(1, 0))
     ELSE ToAndFro(g.board.king[SIDE_BLACK], Sq(2, 7), Sq(3, 7))}
    \cup (IF g.history = <<>> THEN {turn_move(PIECE_PAWN, Sq(7, 2), {}, {}, 0)} ELSE {})

\* Bound on the number of facade calls made on a Game of the late setup
MaxLate == 4

\* After e4 Black can capture d4xe3 en passant; after e4 a6 Kg1 no more
S_LATE ==
    Setup("late", {W("h", 1, PIECE_KING), W("e", 2, PIECE_PAWN),
                   B("h", 8, PIECE_KING), B("d", 4, PIECE_PAWN), B("a", 7, PIECE_PAWN)})
LATE ==
    <<turn_move(PIECE_PAWN, Sq(4, 3), {}, {}, 0), turn_move(PIECE_PAWN, Sq(0, 5), {}, {}, 0),
      turn_move(PIECE_KING, Sq(6, 0), {}, {}, 0)>>

\* The parsed turn strings tried on a game of the late setup: the next turn
\* of the line, dxe3, dxe3+ and dxc3
LateInputs(g) ==
    LineNext(LATE, g)
    \cup {turn_move(PIECE_PAWN, Sq(4, 2), {"CAPTURE"}, FileSquares(3), 0),
          turn_move(PIECE_PAWN, Sq(4, 2), {"CAPTURE", "CHECK"}, FileSquares(3), 0),
          turn_move(PIECE_PAWN, Sq(2, 2), {"CAPTURE"}, FileSquares(3), 0)}

\* Setup strings of few pieces.
\* The two kings alone
S_BARE == Setup("bare", {W("a", 1, PIECE_KING), B("c", 8, PIECE_KING)})
\* The two kings and a bishop
S_MINOR ==
    Setup("minor", {W("a", 1, PIECE_KING), W("f", 1, PIECE_BISHOP), B("c", 8, PIECE_KING)})
\* Nxd5 leaves the two kings and a knight, Kxb2 the two kings, a pawn and a
\* knight
S_TAKE ==
    Setup("take", {W("a", 1, PIECE_KING), W("c", 3, PIECE_KNIGHT),
                   B("h", 8, PIECE_KING), B("d", 5, PIECE_PAWN), B("b", 2, PIECE_KNIGHT)})
\* King and rooks stand where they start a normal game, nothing between them
S_HOME ==
    Setup("home", {W("e", 1, PIECE_KING), W("a", 1, PIECE_ROOK), W("h", 1, PIECE_ROOK),
                   B("e", 8, PIECE_KING), B("a", 7, PIECE_PAWN)})
\* White is in check by the rook on a8, which the pawn on b7 can capture;
\* without the rook the pawn can go to b8 and capture on c8 as well.  After a
\* white turn the pawn on g2 can go to g1 and capture on h1
S_PROMOTE ==
    Setup("promote", {W("a", 3, PIECE_KING), W("b", 7, PIECE_PAWN), W("h", 1, PIECE_KNIGHT),
                      B("h", 6, PIECE_KING), B("a", 8, PIECE_ROOK), B("c", 8, PIECE_KNIGHT),
                      B("g", 2, PIECE_PAWN)})
\* Bound on the number of facade calls made on a Game of the rivals and of
\* the pinned setup
MaxProbe == 1

\* The knights on b1, b3 and f1 can all go to d2; the rook on a5 can go to
\* d5, the rook on h5 could but for the knight on e5, which the pawn on d4
\* can capture
S_RIVALS ==
    Setup("rivals", {W("h", 1, PIECE_KING), W("a", 5, PIECE_ROOK), W("h", 5, PIECE_ROOK),
                     W("d", 4, PIECE_PAWN), W("b", 1, PIECE_KNIGHT), W("b", 3, PIECE_KNIGHT),
                     W("f", 1, PIECE_KNIGHT),
                     B("g", 7, PIECE_KING), B("e", 5, PIECE_KNIGHT)})
\* The knight on b2 is pinned by the bishop on h8; it and the knight on e1
\* could both go to d3
S_PINNED ==
    Setup("pinned", {W("a", 1, PIECE_KING), W("b", 2, PIECE_KNIGHT), W("e", 1, PIECE_KNIGHT),
                     B("g", 8, PIECE_KING), B("h", 8, PIECE_BISHOP)})
Positions == {S_BARE, S_MINOR, S_TAKE, S_HOME, S_PROMOTE, S_RIVALS, S_PINNED, S_LATE}

\* Bound on the number of tokens of a setup string given as text
MaxTokens == 3

\* The tokens the setup strings given as text are made of: the two kings, a
\* rook, a queen on the white king's square, a second white king, tokens of
\* one, two and four fields, an unknown square, side and piece, an empty
\* field
Tokens ==
    {<<"e1", "w", "K">>, <<"e8", "b", "K">>, <<"a1", "W", "R">>, <<"e1", "b", "Q">>,
     <<"c1", "w", "K">>, <<"a1">>, <<"a1", "w">>, <<"a1", "w", "R", "R">>,
     <<"xx", "w", "R">>, <<"a1", "X", "R">>, <<"a1", "w", "T">>, <<"a1", "", "R">>}

\* The setup strings given as text
SetupTexts == UNION {[1..n -> Tokens] : n \in 0..MaxTokens}

\* The turn strings tried on a game created from the setup string text
Inputs(text, g) ==
    IF text = NORMAL_SETUP.text THEN LineInputs(g)
    ELSE IF text = S_QUIET.text THEN QuietInputs(g)
    ELSE IF text = S_REPEAT.text THEN RepeatInputs(g)
    ELSE IF text = S_WALK.text THEN WalkInputs(g)
    ELSE IF text = S_HUNDRED.text THEN HundredInputs(g)
    ELSE IF text = S_LATE.text THEN LateInputs(g)
    ELSE FreeInputs(g)

\* The bound on the calls made on a game created from the setup string text
CallsBound(text) ==
    IF text = NORMAL_SETUP.text THEN (IF script \in LongLines THEN MaxLost ELSE MaxLine)
    ELSE IF text = S_QUIET.text THEN MaxQuiet
    ELSE IF text = S_REPEAT.text THEN MaxRepeat
    ELSE IF text \in {S_WALK.text, S_HUNDRED.text} THEN MaxWalk
    ELSE IF text \in {S_RIVALS.text, S_PINNED.text} THEN MaxProbe
    ELSE IF text = S_LATE.text THEN MaxLate
    ELSE MaxCalls

\* undo_turn is tried on every game: on a game played for a hundred
\* half-moves once it is over, on a game that follows one of the long
\* scripts after a castling
UndoTried(text, g) ==
    /\ text \in {S_QUIET.text, S_WALK.text, S_HUNDRED.text} => g.board.gamestate # "Ongoing"
    /\ (text = NORMAL_SETUP.text /\ script \in LongLines)
           => (g.history # <<>> /\ g.history[Len(g.history)].turn.kind = "Castling")

\* what the last call returned
Result(op, err, gs) == [op |-> op, err |-> err, gs |-> gs]

\* the process is alive: no panic has ended it
Alive == game.board.fault = ""

\* the position-hash multiset: the hashes that are counted at least once
HashMultiset(state_hashes) ==
    [h \in {k \in DOMAIN state_hashes : state_hashes[k] > 0} |-> state_hashes[h]]

\* the engine state: the board, the counters, the game state, the
\* position-hash multiset, the history and the available turns
Engine(g) ==
    <<g.board.map, g.board.king, g.board.castling_rights, g.board.enpassant,
      g.board.fifty_move_rule, g.board.gamestate, HashMultiset(g.board.state_hashes),
      g.board.active_player, g.history, g.available_turns>>

\* Game::new on one of the setups: the state after construction.  A game of
\* the normal setup follows one of the scripts.
InitFrom(setups, scripts) ==
    /\ \E s \in setups : setup = s.text /\ game = create(s)
    /\ script \in (IF setup = NORMAL_SETUP.text THEN scripts ELSE {<<>>})
    /\ result = Result("new", "", "Ongoing")
    /\ calls = 0
    /\ past = <<Engine(game)>>

Init == InitFrom(Setups, {OPENING, CHECKED})

\* The stack of engine states after a call that returned: an accepted turn
\* pushes the state it led to, an undo pops
Stacked(op, err, g) ==
    IF err # "" THEN past
    ELSE IF op = "play_turn" THEN Append(past, Engine(g))
    ELSE SubSeq(past, 1, Len(past) - 1)

\* A call returns r.  A panic ends the process.  A u8 count that overflowed
\* panics in a build with overflow checks and wraps in one without.
Returns(op, r) ==
    IF r.err = "panic" \/ r.game.board.fault # ""
    THEN /\ game' = [game EXCEPT !.board = Panic(@)]
         /\ result' = Result(op, "panic", game.board.gamestate)
         /\ past' = past
    ELSE IF r.game.board.overflow
    THEN \/ /\ game' = [game EXCEPT !.board = Panic(@)]
            /\ result' = Result(op, "panic", game.board.gamestate)
            /\ past' = past
         \/ /\ game' = [r.game EXCEPT !.board.overflow = FALSE]
            /\ result' = Result(op, r.err, r.gs)
            /\ past' = Stacked(op, r.err, r.game)
    ELSE /\ game' = r.game
         /\ result' = Result(op, r.err, r.gs)
         /\ past' = Stacked(op, r.err, r.game)

\* Game::play_turn on any of the turn strings
PlayTurn ==
    /\ Alive /\ calls < CallsBound(setup)
    /\ \E t \in Inputs(setup, game) : Returns("play_turn", play_turn(game, t))
    /\ calls' = calls + 1
    /\ UNCHANGED <<setup, script>>

\* Game::undo_turn
UndoTurn ==
    /\ Alive /\ calls < CallsBound(setup) /\ UndoTried(setup, game)
    /\ Returns("undo_turn", undo_turn(game))
    /\ calls' = calls + 1
    /\ UNCHANGED <<setup, script>>

Next == PlayTurn \/ UndoTurn

Spec == Init /\ [][Next]_vars

\* The long games: a Game of the quiet setup, of the repeat setup, of the
\* walk setup or of the hundred setup, played to its end
LongInit == InitFrom({S_QUIET, S_REPEAT, S_WALK, S_HUNDRED}, {})
LongGame == LongInit /\ [][Next]_vars

\* The games of few pieces: a Game of one of the positions
PositionInit == InitFrom(Positions, {})
PositionGames == PositionInit /\ [][Next]_vars

\* The games from the normal setup in which kings and rooks move, rooks are
\* captured or lost and the knights return to the starting position
RightsInit ==
    InitFrom({NORMAL_SETUP},
             {KING_MOVED, ROOKS, CORNER, PROMOTED, LOST, EMPTY, UNDERPROMOTED, RETURNED})
RightsGames == RightsInit /\ [][Next]_vars

\* Construction from a setup string given as text: before Game::new is
\* called there is no Game
BuilderInit ==
    /\ setup \in SetupTexts
    /\ game = NoGame("none")
    /\ result = Result("none", "", "")
    /\ calls = 0
    /\ past = <<>>
    /\ script = <<>>

\* Game::new on the setup string
NewGame ==
    /\ result.op = "none"
    /\ game' = Game_new(setup).game
    /\ result' = Result("new", Game_new(setup).err, "")
    /\ calls' = calls + 1
    /\ UNCHANGED <<setup, past, script>>

Builder == BuilderInit /\ [][NewGame]_vars

(***************************************************************************)
(* The properties stated of the engine.                                    *)
(***************************************************************************)

\* what a rejected turn must leave alone
Core(g) ==
    <<g.board.map, g.board.king, g.board.castling_rights, g.board.enpassant,
      g.board.fifty_move_rule, g.board.gamestate, HashMultiset(g.board.state_hashes),
      g.board.active_player, g.history>>

\* what play_turn followed by undo_turn must restore, the hash counts with
\* their zero entries
Snapshot(g) ==
    <<g.board.map, g.board.king, g.board.castling_rights, g.board.enpassant,
      g.board.fifty_move_rule, g.board.gamestate, g.board.state_hashes,
      g.board.active_player, g.history, g.available_turns>>

\* the last call was a play_turn that was accepted
Accepted == Alive /\ result.op = "play_turn" /\ result.err = ""

\* the turn of the last accepted play_turn
LastTurn == game.history[Len(game.history)].turn

\* the king of the side to move is attacked
Attacked(board) ==
    ~is_safe(board.map, board.king[board.active_player], board.active_player)

\* the side to move is checkmated: its king is attacked and it has no turn
Checkmated(board) == Attacked(board) /\ get_available_turns(board).turns = <<>>

\* the turns of available_turns()
AvailableSet(g) == {g.available_turns[i].turn : i \in DOMAIN g.available_turns}

\* C1: whenever play_turn returns an error, the board map, the king cache,
\* the castling rights, the en-passant record, the fifty-move counter, the
\* game state, the position-hash multiset, the active player and the history
\* are what they were before the call.
C1_RejectedTurnChangesNothing ==
    [][(result'.op = "play_turn" /\ result'.err \notin {"", "panic"})
         => Core(game') = Core(game)]_vars

\* C2: play_turn accepted and followed at once by undo_turn restores the
\* board, the history, the available turns and the position hashes, which
\* gain no entry, not even one counted zero.
UndoRestores(g, u) == u.err = "" /\ Snapshot(u.game) = Snapshot(g)
RoundTrip(g, r) ==
    (r.err = "" /\ r.game.board.fault = "") => UndoRestores(g, undo_turn(r.game))
C2_PlayThenUndoRestores ==
    Alive => \A t \in Inputs(setup, game) : RoundTrip(game, play_turn(game, t))

\* C3: in every reachable Ongoing state each turn of available_turns() is
\* accepted by play_turn.
C3_AvailableTurnsAreAccepted ==
    (Alive /\ game.board.gamestate = "Ongoing")
        => \A i \in DOMAIN game.available_turns :
               play_turn(game, game.available_turns[i].turn).err = ""

\* C4: in every reachable state a turn that is not in available_turns() is
\* rejected by play_turn with an error.
C4_OtherTurnsAreRejected ==
    Alive => \A t \in Inputs(setup, game) \ AvailableSet(game) : play_turn(game, t).err # ""

\* C5: in every reachable state available_turns() is empty exactly when the
\* game state is not Ongoing.
C5_NoTurnsIffGameOver ==
    Alive => ((game.available_turns = <<>>) <=> (game.board.gamestate # "Ongoing"))

\* C6: a turn marked '#' is accepted only if it leaves the opponent's king
\* attacked and the opponent without a legal turn, and the game state is a
\* Victory only when the side to move is checkmated.
C6_CheckmateMarkMeansCheckmate ==
    /\ (Accepted /\ HasFlag(LastTurn, "CHECKMATE")) => Checkmated(game.board)
    /\ (Alive /\ game.board.gamestate \in {Victory(SIDE_WHITE), Victory(SIDE_BLACK)})
           => Checkmated(game.board)

\* C7: the check mark of an accepted turn agrees with the position it leaves:
\* the turn carries '+' or '#' exactly when the opponent's king is attacked.
C7_CheckMarkAgreesWithPosition ==
    Accepted => ((LastTurn.flags \cap {"CHECK", "CHECKMATE"} # {}) <=> Attacked(game.board))

\* C8: a turn that leaves the opponent's king attacked and the opponent
\* without a legal reply is accepted only when it is marked '#'.
C8_CheckmateNeedsCheckmateMark ==
    (Accepted /\ Checkmated(game.board)) => HasFlag(LastTurn, "CHECKMATE")

\* the source square get_exact_src finds for a move
SrcOf(board, turn) ==
    get_exact_src(possible_squares_for_dst(board.map, turn.dst, board.active_player,
                      IF turn.who # PIECE_PAWN THEN PieceMoveFrom(turn.who)
                      ELSE IF HasFlag(turn, "CAPTURE") THEN PM_PAWN_CAPTURE
                      ELSE PM_PAWN_NORMAL),
                  turn.src)

\* the pieces as a move leaves them: the piece moved from src, the pawn taken
\* en passant removed, the promoted piece put on dst
MovedFrom(board, turn, src, vp) ==
    IF turn.who = PIECE_PAWN
    THEN play_pawn_promote(turn, board.active_player,
                           play_pawn_take(board, vp.is_enpassant,
                                          move_piece(board, turn.dst, src)))
    ELSE move_piece(board, turn.dst, src)

\* a move that gets as far as being made and leaves the mover's king attacked
ExposesAfter(board, turn, src, vp) ==
    /\ src # NoSquare
    /\ vp.err = ""
    /\ Attacked(MovedFrom(board, turn, src, vp))
ExposesOwnKing(board, turn) ==
    /\ turn.kind = "Move"
    /\ turn.who = PIECE_PAWN => ((turn.src = {}) = (~HasFlag(turn, "CAPTURE")))
    /\ ExposesAfter(board, turn, SrcOf(board, turn),
                    IF turn.who = PIECE_PAWN
                    THEN verify_pawn_capture(board, HasFlag(turn, "CAPTURE"), turn.dst)
                    ELSE PawnCaptureResult(
                             verify_capture(board, HasFlag(turn, "CAPTURE"), turn.dst),
                             FALSE))

\* the pieces as a castling leaves them: the rook moved, then the king
Castled(board, turn) ==
    move_piece(move_piece(board, get_path_rook(board.active_player, turn.type).dst,
                          get_path_rook(board.active_player, turn.type).src),
               get_path_king(board.active_player, turn.type).dst,
               get_path_king(board.active_player, turn.type).src)

\* a castling the player has the right to, with the squares between king and
\* rook empty, that leaves the mover's king attacked
ExposesByCastling(board, turn) ==
    /\ turn.kind = "Castling"
    /\ <<board.active_player, turn.type>> \in board.castling_rights
    /\ \A sq \in SeqToSet(get_required_empty_squares(board.active_player, turn.type)) :
           board.map[sq] = 0
    /\ Attacked(Castled(board, turn))

\* after an accepted turn the king of the side that just moved is not attacked
MoverKingSafe ==
    Accepted => is_safe(game.board.map, game.board.king[opponent(game.board.active_player)],
                        opponent(game.board.active_player))

C9_MoveRejected == Alive /\ result.op = "play_turn" /\ result.err = "OurKingMustBeSafe"

\* C10: once the game state is not Ongoing every play_turn returns GameOver
\* with the current game state, whatever the turn string, and changes
\* nothing; a game state that is not Ongoing is left only through undo_turn.
GameOverReturned(g, r) ==
    r.err = "GameOver" /\ r.gs = g.board.gamestate /\ r.game = g
C10_GameOverIsFinal ==
    /\ [](Alive /\ game.board.gamestate # "Ongoing"
             => \A t \in Inputs(setup, game) : GameOverReturned(game, play_turn(game, t)))
    /\ [][(game.board.gamestate # "Ongoing" /\ game'.board.gamestate = "Ongoing")
             => result'.op = "undo_turn"]_vars
    /\ [][(game.board.gamestate # "Ongoing" /\ result'.op = "play_turn")
             => (result'.err = "GameOver" /\ result'.gs = game.board.gamestate
                 /\ game' = game)]_vars

\* C10, its case: play_turn was called on a game that was over
C10_Witness ==
    /\ Alive /\ game.board.gamestate # "Ongoing"
    /\ result.op = "play_turn" /\ result.err = "GameOver"
    /\ result.gs = game.board.gamestate

\* what undo_turn must bring back: the board, the counters, the position-hash
\* multiset, the history and the available turns
Restored(g) ==
    <<g.board.map, g.board.king, g.board.castling_rights, g.board.enpassant,
      g.board.fifty_move_rule, HashMultiset(g.board.state_hashes),
      g.board.active_player, g.history, g.available_turns>>

\* undo_turn on the game over (r) that a turn made of the game g
TerminalUndone(g, u) ==
    /\ u.err = "" /\ u.game.board.fault = ""
    /\ u.game.board.gamestate = "Ongoing"
    /\ Restored(u.game) = Restored(g)
TerminalUndo(g, r) ==
    (r.err = "" /\ r.game.board.fault = "" /\ r.game.board.gamestate # "Ongoing")
        => TerminalUndone(g, undo_turn(r.game))

\* C11: from any game state that is not Ongoing undo_turn succeeds, the game
\* state becomes Ongoing, and the board, the counters, the position-hash
\* multiset and the available turns are those of the state that the
\* terminating turn was played on.
C11_UndoLeavesTerminalState ==
    Alive => \A t \in Inputs(setup, game) : TerminalUndo(game, play_turn(game, t))

\* undo_turn succeeded in every build: no panic, no u8 count below zero
Succeeded(u) == u.err = "" /\ u.game.board.fault = "" /\ ~u.game.board.overflow

\* what undo_turn (u) must do to the game g
UndoneOrRefused(g, u) ==
    IF g.history = <<>>
    THEN u.err = "UndoNotAvailable" /\ u.game = g
    ELSE Succeeded(u) /\ u.game.history = SubSeq(g.history, 1, Len(g.history) - 1)

\* C12: undo_turn fails only when the history is empty: it then returns
\* UndoNotAvailable and changes nothing; with a history that is not empty it
\* succeeds and removes exactly the last history entry.
C12_UndoFailsOnlyOnEmptyHistory == Alive => UndoneOrRefused(game, undo_turn(game))

\* C13: the history is a stack of the accepted turns: after accepted turns
\* and undos, with rejected turns anywhere between them, the engine state is
\* the one that existed after the accepted turns that are not undone, and
\* the history is as long as the accepted turns less the undos are many.
C13_HistoryIsLifo ==
    Alive => /\ Len(game.history) = Len(past) - 1
             /\ Engine(game) = past[Len(past)]

\* the squares that hold the king of side
KingSquares(board, side) ==
    {sq \in Squares : board.map[sq] = u8_from_figure(PIECE_KING, side)}

\* C14: in every reachable state there is exactly one king of each side on
\* the board, and the cached king square of each side holds that side's king.
C14_OneKingEachCached ==
    Alive => \A side \in Sides : KingSquares(game.board, side) = {game.board.king[side]}

\* C14, its case: a king was moved by an accepted turn and is cached where
\* it stands
C14_Witness ==
    /\ Accepted
    /\ LastTurn.kind = "Move" /\ LastTurn.who = PIECE_KING
    /\ game.board.king[opponent(game.board.active_player)] = LastTurn.dst

\* the castling rights of the engine state on top of the stack
PastCastlingRights(stack) == stack[Len(stack)][3]

\* C15: across any play_turn call, accepted or rejected, the castling rights
\* afterwards are a subset of those before; only undo_turn adds a right
\* again, and it restores the set held before the undone turn.
C15_CastlingRightsShrink ==
    [][/\ result'.op = "play_turn"
            => game'.board.castling_rights \subseteq game.board.castling_rights
       /\ (result'.op = "undo_turn" /\ result'.err = "")
            => game'.board.castling_rights = PastCastlingRights(past')]_vars

\* C15, its case: a castling took the player's rights and was undone, and
\* every right is held again
C15_Witness ==
    /\ Alive /\ result.op = "undo_turn" /\ result.err = ""
    /\ Len(game.history) = Len(OPENING) - 1
    /\ game.board.castling_rights = AllCastlingRights

\* the history entry st is a pawn's advance of two squares
TwoSquareAdvance(st) ==
    /\ st.turn.kind = "Move" /\ st.turn.who = PIECE_PAWN
    /\ st.moving_piece_src # NoSquare
    /\ FileOf(st.moving_piece_src) = FileOf(st.turn.dst)
    /\ RankOf(st.turn.dst) - RankOf(st.moving_piece_src) \in {2, 0 - 2}

\* the record of the advance st: the pawn's square and the square it skipped
AdvanceRecord(st) ==
    <<st.turn.dst,
      Sq(FileOf(st.turn.dst), (RankOf(st.moving_piece_src) + RankOf(st.turn.dst)) \div 2)>>

\* the en-passant record the history calls for
RecordOf(history) ==
    IF history # <<>> /\ TwoSquareAdvance(history[Len(history)])
    THEN AdvanceRecord(history[Len(history)])
    ELSE <<>>

\* C16: in every reachable state the en-passant record is present exactly
\* when the last turn of the history was a pawn's advance of two squares, and
\* then it names that pawn's square and the square it skipped; it is absent
\* in the initial state and after any other turn.
C16_EnpassantFollowsLastTurn ==
    Alive => game.board.enpassant = RecordOf(game.history)

\* C16, its case: a turn that is no two-square advance was played on a
\* position that held a record, and the record is gone
C16_Witness ==
    /\ Accepted /\ Len(game.history) >= 2
    /\ TwoSquareAdvance(game.history[Len(game.history) - 1])
    /\ ~TwoSquareAdvance(game.history[Len(game.history)])
    /\ game.board.enpassant = <<>>

\* C16, its other case: the record of a two-square advance is present
C16_RecordPresent ==
    /\ Accepted /\ TwoSquareAdvance(game.history[Len(game.history)])
    /\ game.board.enpassant = AdvanceRecord(game.history[Len(game.history)])

\* the sum of the counts of the hashes in keys
RECURSIVE SumCounts(_, _)
SumCounts(state_hashes, keys) ==
    IF keys = {} THEN 0
    ELSE LET k == CHOOSE k \in keys : TRUE
         IN state_hashes[k] + SumCounts(state_hashes, keys \ {k})

\* the counts of the position-hash multiset summed
HashSum(state_hashes) ==
    SumCounts(state_hashes, {k \in DOMAIN state_hashes : state_hashes[k] > 0})

\* C17: in every reachable state the counts of the position-hash multiset
\* sum to the history length plus one: the starting position is counted
\* once and every accepted turn that is not undone adds one.
C17_HashCountsSumToHistoryPlusOne ==
    Alive => HashSum(game.board.state_hashes) = Len(game.history) + 1

\* the history entry st is neither a pawn's move nor a capture
QuietEntry(st) ==
    st.turn.kind = "Castling" \/ (st.turn.who # PIECE_PAWN /\ st.captured = <<>>)

\* the accepted half-moves since the start of the game or the last pawn's
\* move or capture
QuietRun(history) ==
    Len(history)
    - Cardinality({i \in DOMAIN history :
                      \E j \in DOMAIN history : j >= i /\ ~QuietEntry(history[j])})

\* C18: the game becomes DrawFiftyMoveRule on the 100th accepted half-move
\* in a row that is neither a pawn's move nor a capture, counted from the
\* start of the game or from the last pawn's move or capture, and not
\* earlier.
C18_FiftyMoveDrawOnHundredth ==
    Alive => /\ game.board.gamestate = "DrawFiftyMoveRule"
                  => QuietRun(game.history) = 100
             /\ (Accepted /\ QuietRun(game.history) = 100)
                  => game.board.gamestate \in {"DrawFiftyMoveRule", "DrawThreeFoldRepetition",
                                               Victory(SIDE_WHITE), Victory(SIDE_BLACK)}

\* the position of an engine state: the side to move, the board map, the
\* en-passant record and the castling rights
Position(e) == <<e[8], e[1], e[4], e[3]>>

\* how often the position of the game has come up: after construction and
\* after each accepted turn that is not undone
Occurrences(stack, g) ==
    Cardinality({i \in DOMAIN stack : Position(stack[i]) = Position(Engine(g))})

\* C19: an accepted turn sets the game state to DrawThreeFoldRepetition
\* exactly when the position it leaves has come up three times, and the next
\* turn tried then returns GameOver with that state.
C19_ThirdOccurrenceIsDraw ==
    /\ Accepted => ((game.board.gamestate = "DrawThreeFoldRepetition")
                        <=> (Occurrences(past, game) = 3))
    /\ (Alive /\ game.board.gamestate = "DrawThreeFoldRepetition")
           => \A t \in Inputs(setup, game) :
                  /\ play_turn(game, t).err = "GameOver"
                  /\ play_turn(game, t).gs = "DrawThreeFoldRepetition"

\* the side to move has no legal turn and its king is not attacked
Stalemated(board) == get_available_turns(board).turns = <<>> /\ ~Attacked(board)

\* C20: after an accepted turn the game state is Stalemate exactly when the
\* side now to move has no legal turn and its king is not in check; Stalemate
\* is never declared while the side to move is in check.
C20_StalemateMeansNoTurnNoCheck ==
    /\ Accepted => ((game.board.gamestate = "Stalemate") <=> Stalemated(game.board))
    /\ (Alive /\ game.board.gamestate = "Stalemate") => ~Attacked(game.board)

\* the pieces on the board that are no kings
Others(map) == {sq \in Squares : map[sq] # 0 /\ PieceOf(map[sq]) # PIECE_KING}

\* the board holds exactly K+K, K+K+B or K+K+N
InsufficientMaterial(map) ==
    /\ Cardinality({sq \in Squares : map[sq] # 0 /\ PieceOf(map[sq]) = PIECE_KING}) = 2
    /\ Cardinality(Others(map)) <= 1
    /\ \A sq \in Others(map) : PieceOf(map[sq]) \in {PIECE_BISHOP, PIECE_KNIGHT}

\* C21: the game state is DrawInsufficientMatingMaterial only when the board
\* holds exactly K+K, K+K+B or K+K+N, and the game is never Ongoing in a
\* reachable state, that after construction included, whose board holds
\* exactly such material.
C21_InsufficientMaterialIsDrawn ==
    Alive => /\ game.board.gamestate = "DrawInsufficientMatingMaterial"
                  => InsufficientMaterial(game.board.map)
             /\ InsufficientMaterial(game.board.map) => game.board.gamestate # "Ongoing"

\* the squares of the back rank strictly between the files a and b
BetweenFiles(side, a, b) ==
    {Sq(f, BackRank(side)) : f \in {x \in 0..7 : (a < x /\ x < b) \/ (b < x /\ x < a)}}

\* the squares between the king and the rook of a castling
BetweenKingAndRook(side, castling_type) ==
    BetweenFiles(side, 4, IF castling_type = "Long" THEN 0 ELSE 7)

\* the squares the king of a castling crosses or lands on
KingCrosses(side, castling_type) ==
    BetweenFiles(side, 4, IF castling_type = "Long" THEN 1 ELSE 7)

\* the error a castling of the side to move calls for, "" when none of the
\* four applies
CastlingError(board, castling_type) ==
    LET side == board.active_player
    IN IF <<side, castling_type>> \notin board.castling_rights THEN "CastlingUnavailable"
       ELSE IF Attacked(board) THEN "CastlingUnderCheck"
       ELSE IF \E sq \in BetweenKingAndRook(side, castling_type) : board.map[sq] # 0
            THEN "CastlingSquaresNotEmpty"
       ELSE IF \E sq \in KingCrosses(side, castling_type) : ~is_safe(board.map, sq, side)
            THEN "KingCannotCastleSafetly"
       ELSE ""

\* play_turn (r) rejected the castling as called for and left the rights alone
CastlingRejected(g, e, r) ==
    e # "" => /\ r.err = e
              /\ r.game.board.castling_rights = g.board.castling_rights

\* C22: a castling turn is rejected with CastlingUnavailable if the mover does
\* not hold that right; else with CastlingUnderCheck if the mover's king is
\* attacked; else with CastlingSquaresNotEmpty if a square between king and
\* rook is occupied; else with KingCannotCastleSafetly if a square the king
\* crosses or lands on is attacked; in this order, whatever check mark the
\* turn carries, and with the castling rights unchanged.
C22_CastlingErrorsInOrder ==
    (Alive /\ game.board.gamestate = "Ongoing")
        => \A t \in Inputs(setup, game) :
               t.kind = "Castling"
                   => CastlingRejected(game, CastlingError(game.board, t.type),
                                       play_turn(game, t))

\* C22, its case: a castling was rejected because the king is in check,
\* while squares between king and rook are occupied
C22_Witness ==
    /\ Alive /\ result.op = "play_turn" /\ result.err = "CastlingUnderCheck"
    /\ \E sq \in BetweenKingAndRook(game.board.active_player, "Short") : game.board.map[sq] # 0
    /\ game.board.castling_rights = AllCastlingRights

\* the castling rights a move takes: st is its history entry, side the mover
RightsTaken(st, side) ==
    (IF st.turn.who = PIECE_KING THEN {<<side, "Long">>, <<side, "Short">>} ELSE {})
    \cup (IF st.turn.who = PIECE_ROOK /\ FileOf(st.moving_piece_src) = 0
             /\ RankOf(st.moving_piece_src) \in {0, 7}
          THEN {<<side, "Long">>} ELSE {})
    \cup (IF st.turn.who = PIECE_ROOK /\ FileOf(st.moving_piece_src) = 7
             /\ RankOf(st.moving_piece_src) \in {0, 7}
          THEN {<<side, "Short">>} ELSE {})
    \cup (IF st.captured # <<>> /\ PieceOf(st.captured[2]) = PIECE_ROOK
             /\ FileOf(st.captured[1]) = 0 /\ RankOf(st.captured[1]) \in {0, 7}
          THEN {<<SideOf(st.captured[2]), "Long">>} ELSE {})
    \cup (IF st.captured # <<>> /\ PieceOf(st.captured[2]) = PIECE_ROOK
             /\ FileOf(st.captured[1]) = 7 /\ RankOf(st.captured[1]) \in {0, 7}
          THEN {<<SideOf(st.captured[2]), "Short">>} ELSE {})

\* the castling rights held before the last accepted turn
RightsBefore(stack) == stack[Len(stack) - 1][3]

\* C23: an accepted move that is no castling changes the castling rights only
\* so: a king's move takes both rights of the mover, a rook's move from a1/a8
\* the mover's Long right and from h1/h8 the mover's Short right, the capture
\* of a rook on a1/a8 or h1/h8 the Long or Short right of the captured side,
\* whatever piece captures; a rook captured elsewhere and every other move
\* leave the rights as they were.
C23_MovesTakeCastlingRights ==
    (Accepted /\ LastTurn.kind = "Move")
        => game.board.castling_rights
               = RightsBefore(past)
                 \ RightsTaken(game.history[Len(game.history)],
                               opponent(game.board.active_player))

\* C23, its case: a pawn that promotes captured the rook on h8, and Black's
\* Short right is gone
C23_Witness ==
    /\ Accepted /\ LastTurn.who = PIECE_PAWN /\ LastTurn.promotion # 0
    /\ game.history[Len(game.history)].captured = <<Sq(7, 7), u8_from_figure(PIECE_ROOK, SIDE_BLACK)>>
    /\ <<SIDE_BLACK, "Short">> \in RightsBefore(past)
    /\ game.board.castling_rights = AllCastlingRights \ {<<SIDE_BLACK, "Short">>}

\* C23, another case: a rook was captured on a square that is no corner, and
\* the rights are as they were
C23_RookTakenElsewhere ==
    /\ Accepted /\ LastTurn.who = PIECE_ROOK
    /\ game.history[Len(game.history)].captured = <<Sq(6, 5), u8_from_figure(PIECE_ROOK, SIDE_BLACK)>>
    /\ game.board.castling_rights = RightsBefore(past)
    /\ <<SIDE_BLACK, "Short">> \in game.board.castling_rights

\* the game was created from a custom setup: a setup string that is not
\* NORMAL_SETUP
CustomGame == setup # NORMAL_SETUP.text

\* no castling is among the turns of available_turns()
NoCastlingAvailable(g) == \A t \in AvailableSet(g) : t.kind # "Castling"

C24_RejectedAsGameOver ==
    /\ Alive /\ CustomGame /\ game.board.gamestate # "Ongoing"
    /\ result.op = "play_turn" /\ result.err = "GameOver"

\* the token is not three fields that name a square, a side and a piece
BadToken(token) ==
    \/ Len(token) # 3
    \/ Square_try_from(token[1]) = NoSquare
    \/ Side_try_from(token[2]) = 0
    \/ Piece_try_from(token[3]) = 0

\* the tokens that place a king of side
KingTokens(tokens, side) ==
    {i \in DOMAIN tokens : Side_try_from(tokens[i][2]) = side /\ tokens[i][3] = "K"}

\* the setup string is not a setup: a token is bad, a square is used twice,
\* or a side has not exactly one king
Malformed(tokens) ==
    \/ \E i \in DOMAIN tokens : BadToken(tokens[i])
    \/ \E i, j \in DOMAIN tokens : i # j /\ tokens[i][1] = tokens[j][1]
    \/ \E side \in Sides : Cardinality(KingTokens(tokens, side)) # 1

\* C25: the construction of a Game returns a setup error, and neither panics
\* nor yields a Game, whenever the setup string holds a token that is not
\* exactly three fields square, side, piece, names an unknown square, side or
\* piece, uses a square twice, or does not place exactly one king a side.
C25_MalformedSetupIsAnError ==
    (result.op = "new" /\ Malformed(setup))
        => (result.err \notin {"", "panic"} /\ ~Alive)

\* the rank a pawn of side promotes on, and the rank before it
FinalRank(side) == IF side = SIDE_WHITE THEN 7 ELSE 0
SeventhRank(side) == IF side = SIDE_WHITE THEN 6 ELSE 1

\* the board after the pawn on src went to dst
Advanced(map, src, dst) == [map EXCEPT ![src] = 0, ![dst] = map[src]]

\* a pawn of the side to move on src can legally go to dst on the final
\* rank: straight on to an empty square, or diagonally on to a piece of the
\* opponent that is no king, its own king not attacked afterwards
PromotingMove(board, src, dst) ==
    LET side == board.active_player
    IN /\ board.map[src] = u8_from_figure(PIECE_PAWN, side)
       /\ RankOf(src) = SeventhRank(side) /\ RankOf(dst) = FinalRank(side)
       /\ \/ FileOf(dst) = FileOf(src) /\ board.map[dst] = 0
          \/ /\ FileOf(dst) - FileOf(src) \in {1, 0 - 1}
             /\ board.map[dst] # 0
             /\ SideOf(board.map[dst]) = opponent(side)
             /\ PieceOf(board.map[dst]) # PIECE_KING
       /\ is_safe(Advanced(board.map, src, dst), board.king[side], side)

\* the entries of available_turns() from src to dst
EntriesOf(g, src, dst) ==
    {i \in DOMAIN g.available_turns :
        g.available_turns[i].src = src /\ g.available_turns[i].dst = dst}

\* the entries from src to dst are four, one for each promotion
FourPromotions(g, src, dst) ==
    /\ Cardinality(EntriesOf(g, src, dst)) = 4
    /\ {g.available_turns[i].turn.promotion : i \in EntriesOf(g, src, dst)}
           = {PIECE_QUEEN, PIECE_ROOK, PIECE_BISHOP, PIECE_KNIGHT}

\* C26: for every legal pawn move, push or capture, on to the final rank
\* available_turns() holds exactly four turns with that source and
\* destination, one each promoting to queen, rook, bishop and knight, and no
\* turn of that pawn to that destination without a promotion.
C26_FourPromotionsEach ==
    (Alive /\ game.board.gamestate = "Ongoing")
        => \A src, dst \in Squares :
               PromotingMove(game.board, src, dst) => FourPromotions(game, src, dst)

\* C26, a case in which it holds: after an accepted turn the black pawn on
\* g2 can capture on h1, and that capture is listed with its four promotions
C26_CaptureListed ==
    /\ Accepted /\ game.board.gamestate = "Ongoing"
    /\ PromotingMove(game.board, Sq(6, 1), Sq(7, 0))
    /\ FourPromotions(game, Sq(6, 1), Sq(7, 0))

\* the squares strictly between two squares of one file, rank or diagonal
Sign(n) == IF n > 0 THEN 1 ELSE IF n < 0 THEN 0 - 1 ELSE 0
Abs(n) == IF n < 0 THEN 0 - n ELSE n
Span(a, b) ==
    IF Abs(FileOf(b) - FileOf(a)) > Abs(RankOf(b) - RankOf(a))
    THEN Abs(FileOf(b) - FileOf(a)) ELSE Abs(RankOf(b) - RankOf(a))
Between(a, b) ==
    {Sq(FileOf(a) + k * Sign(FileOf(b) - FileOf(a)), RankOf(a) + k * Sign(RankOf(b) - RankOf(a))) :
        k \in 1..(Span(a, b) - 1)}

\* a piece of the kind on src can go to dst by the rules of its movement
Straight(map, src, dst) ==
    /\ src # dst
    /\ FileOf(src) = FileOf(dst) \/ RankOf(src) = RankOf(dst)
    /\ \A sq \in Between(src, dst) : map[sq] = 0
Diagonal(map, src, dst) ==
    /\ src # dst
    /\ Abs(FileOf(dst) - FileOf(src)) = Abs(RankOf(dst) - RankOf(src))
    /\ \A sq \in Between(src, dst) : map[sq] = 0
Reaches(map, piece, src, dst) ==
    CASE piece = PIECE_KNIGHT ->
             {Abs(FileOf(dst) - FileOf(src)), Abs(RankOf(dst) - RankOf(src))} = {1, 2}
      [] piece = PIECE_KING -> Span(src, dst) = 1
      [] piece = PIECE_ROOK -> Straight(map, src, dst)
      [] piece = PIECE_BISHOP -> Diagonal(map, src, dst)
      [] piece = PIECE_QUEEN -> Straight(map, src, dst) \/ Diagonal(map, src, dst)
      [] OTHER -> FALSE

\* the rivals of the piece on src for dst: the other pieces of its kind and
\* side that can go to dst
Rivals(map, src, dst) ==
    {sq \in Squares \ {src} : map[sq] = map[src] /\ Reaches(map, PieceOf(map[src]), sq, dst)}

\* the shortest source hint that tells src from the rivals: none, the file,
\* the rank, the square
ShortestHint(src, rivals) ==
    IF rivals = {} THEN {}
    ELSE IF \A sq \in rivals : FileOf(sq) # FileOf(src) THEN FileSquares(FileOf(src))
    ELSE IF \A sq \in rivals : RankOf(sq) # RankOf(src) THEN RankSquares(RankOf(src))
    ELSE {src}

\* the entries of available_turns() that are moves of a piece that is no pawn
PieceEntries(g) ==
    {i \in DOMAIN g.available_turns :
        g.available_turns[i].turn.kind = "Move" /\ g.available_turns[i].piece # PIECE_PAWN}

\* C27: each SAN of a piece that is no pawn in available_turns() uses the
\* shortest source hint that tells its source from the rivals of its kind for
\* the same destination: none, else the file when no rival shares it, else
\* the rank when no rival shares it, else the full square.
C27_ShortestSourceHint ==
    (Alive /\ game.board.gamestate = "Ongoing")
        => \A i \in PieceEntries(game) :
               game.available_turns[i].turn.src
                   = ShortestHint(game.available_turns[i].src,
                                  Rivals(game.board.map, game.available_turns[i].src,
                                         game.available_turns[i].dst))

\* C27, a case in which it holds: the knights on b1, b3 and f1 can go to d2,
\* and the three turns are listed with the square, the rank and the file
C27_ThreeHints ==
    /\ Alive /\ setup = S_RIVALS.text /\ result.op = "new"
    /\ \E i, j, k \in PieceEntries(game) :
          /\ game.available_turns[i].src = Sq(1, 0)
          /\ game.available_turns[i].turn.src = {Sq(1, 0)}
          /\ game.available_turns[j].src = Sq(1, 2)
          /\ game.available_turns[j].turn.src = RankSquares(2)
          /\ game.available_turns[k].src = Sq(5, 0)
          /\ game.available_turns[k].turn.src = FileSquares(5)
          /\ {game.available_turns[i].dst, game.available_turns[j].dst,
              game.available_turns[k].dst} = {Sq(3, 1)}

\* the other entries of available_turns() that move a piece of the same kind
\* to the same destination from another square
RivalEntries(g, i) ==
    {j \in DOMAIN g.available_turns :
        /\ g.available_turns[j].turn.kind = "Move"
        /\ g.available_turns[j].piece = g.available_turns[i].piece
        /\ g.available_turns[j].dst = g.available_turns[i].dst
        /\ g.available_turns[j].src # g.available_turns[i].src}

\* the entries of available_turns() that are moves of a pawn
PawnEntries(g) ==
    {i \in DOMAIN g.available_turns :
        g.available_turns[i].turn.kind = "Move" /\ g.available_turns[i].piece = PIECE_PAWN}

\* C28: a turn of a piece that is no pawn in available_turns() carries a
\* source hint exactly when another piece of the same kind and side has a
\* turn to the same destination in available_turns(); a pawn capture carries
\* the source file and a pawn push carries no hint.
C28_HintIffListedRival ==
    (Alive /\ game.board.gamestate = "Ongoing")
        => /\ \A i \in PieceEntries(game) :
                  (game.available_turns[i].turn.src # {}) <=> (RivalEntries(game, i) # {})
           /\ \A i \in PawnEntries(game) :
                  game.available_turns[i].turn.src
                      = IF game.available_turns[i].captured # 0
                        THEN FileSquares(FileOf(game.available_turns[i].src))
                        ELSE {}

\* the setups of all the games
AllSetups == Setups \cup Positions \cup {S_QUIET, S_REPEAT}

\* the board that play_piece, play_pawn and play_castling hand to
\* verify_check_checkmate for a turn, if the turn gets that far
MovedByPiece(board, turn) ==
    LET src == get_exact_src(possible_squares_for_dst(board.map, turn.dst,
                                 board.active_player, PieceMoveFrom(turn.who)),
                             turn.src)
    IN IF src = NoSquare \/ verify_capture(board, HasFlag(turn, "CAPTURE"), turn.dst) # ""
       THEN {}
       ELSE {IF board.map[turn.dst] # 0
             THEN [move_piece(board, turn.dst, src) EXCEPT !.fifty_move_rule = 0]
             ELSE move_piece(board, turn.dst, src)}
MovedByPawn(board, turn) ==
    LET src == get_exact_src(possible_squares_for_dst(board.map, turn.dst,
                                 board.active_player,
                                 IF HasFlag(turn, "CAPTURE") THEN PM_PAWN_CAPTURE
                                 ELSE PM_PAWN_NORMAL),
                             turn.src)
        vp == verify_pawn_capture(board, HasFlag(turn, "CAPTURE"), turn.dst)
    IN IF \/ (turn.src = {}) # (~HasFlag(turn, "CAPTURE"))
          \/ src = NoSquare
          \/ vp.err # ""
          \/ (vp.is_enpassant /\ board.map[turn.dst] # 0)
       THEN {}
       ELSE {play_pawn_promote(turn, board.active_player,
                 play_pawn_take(board, vp.is_enpassant, move_piece(board, turn.dst, src)))}
MovedByCastling(board, turn) ==
    LET side == board.active_player
        b0 == [board EXCEPT !.castling_rights = CastlingRights_remove(@, <<side, turn.type>>)]
    IN IF <<side, turn.type>> \notin board.castling_rights \/ verify_castling(b0, turn.type) # ""
       THEN {}
       ELSE {move_piece(move_piece(b0, get_path_rook(side, turn.type).dst,
                                   get_path_rook(side, turn.type).src),
                        get_path_king(side, turn.type).dst,
                        get_path_king(side, turn.type).src)}
Moved(board, turn) ==
    IF board.gamestate # "Ongoing" \/ turn.kind = "Unparsable" THEN {}
    ELSE IF turn.kind = "Castling" THEN MovedByCastling(board, turn)
    ELSE IF turn.who = PIECE_PAWN THEN MovedByPawn(board, turn)
    ELSE MovedByPiece(board, turn)

\* the boards on which the executor scans for a reply when it plays the
\* turn: the mover's king is safe and the opponent's king is in check on
\* a square it cannot leave
ReplyScans(board, turn) ==
    {switch_side(b) : b \in
        {m \in Moved(board, turn) :
            /\ m.fault = ""
            /\ is_safe(m.map, m.king[m.active_player], m.active_player)
            /\ get_state(m, opponent(m.active_player)) \notin {"Safe", "Check"}}}

\* what the caller of get_available_turns can see of a board
Visible(board) ==
    <<board.map, board.king, board.castling_rights, board.enpassant, board.fifty_move_rule,
      board.gamestate, board.active_player, HashMultiset(board.state_hashes)>>

\* get_available_turns, when it returns, leaves the board as it found it
EnumerationKeeps(board) ==
    \A left \in {get_available_turns(board).board} :
        left.fault = "" => Visible(left) = Visible(board)

\* the board of a new Game is the board that construction set up
ConstructionKept(g) ==
    \E s \in AllSetups :
        /\ s.text = setup
        /\ Visible(g.board)
               = <<setup_map(s.pieces), setup_kings(s.pieces),
                   IF s.text # NORMAL_SETUP.text THEN CastlingRights_new("None")
                   ELSE CastlingRights_new("All"),
                   <<>>, 0, "Ongoing", SIDE_WHITE, HashMultiset(<<>>)>>

\* C29: the enumeration of the legal turns leaves the board as it found it:
\* when get_available_turns returns, in construction, in play_turn, in
\* undo_turn and in the executor's scan for a reply, the board map, the king
\* cache, the castling rights, the en-passant record, the fifty-move counter,
\* the game state, the active player and the position-hash multiset are what
\* they were before the call.
\* The calls looked at are those that PlayTurn and UndoTurn make.
C29_EnumerationLeavesBoard ==
    Alive
        => /\ result.op = "new" => ConstructionKept(game)
           /\ calls < CallsBound(setup)
                  => \A t \in Inputs(setup, game) :
                         /\ \A b \in ReplyScans(game.board, t) : EnumerationKeeps(b)
                         /\ \A r \in {next_turn(game.board, t)} :
                                (r.err = "" /\ r.board.gamestate = "Ongoing")
                                    => EnumerationKeeps(r.board)
           /\ (calls < CallsBound(setup) /\ UndoTried(setup, game) /\ game.history # <<>>)
                  => EnumerationKeeps(undo(hash_state_pop(switch_side(game.board)),
                                           game.history[Len(game.history)]))

\* C29, a case in which it holds: a turn was accepted that left the
\* opponent's king in check on a square it cannot leave, so the executor
\* scanned for a reply and play_turn enumerated the replies, which simulates
\* every candidate turn on the board
C29_Witness ==
    /\ Alive /\ result.op = "play_turn" /\ result.err = ""
    /\ game.available_turns # <<>>
    /\ get_state(game.board, game.board.active_player) \notin {"Safe", "Check"}
    /\ \E i \in DOMAIN game.available_turns : game.available_turns[i].captured # 0

\* the squares from which the turn that led from map pre to map post removed
\* a piece of the side that did not move
Removed(pre, post, side) ==
    {sq \in Squares : pre[sq] # 0 /\ SideOf(pre[sq]) = opponent(side) /\ post[sq] # pre[sq]}

\* the entry e of available_turns() describes the step from map pre to map
\* post made by side: a piece of kind e.piece went from e.src to e.dst (a
\* promoted pawn stands there as the piece it became), and e.captured is the
\* kind of the piece removed, 0 for none
Describes(e, pre, post, side) ==
    /\ pre[e.src] = u8_from_figure(e.piece, side)
    /\ post[e.src] = 0
    /\ post[e.dst] = u8_from_figure(IF e.turn.kind = "Move" /\ e.turn.promotion # 0
                                    THEN e.turn.promotion ELSE e.piece, side)
    /\ (e.captured = 0) <=> (Removed(pre, post, side) = {})
    /\ \A sq \in Removed(pre, post, side) : PieceOf(pre[sq]) = e.captured
    /\ (e.captured # 0 /\ pre[e.dst] = 0) => e.captured = PIECE_PAWN

\* the entry e of available_turns() is played as it says: r is what
\* next_turn returns for its turn on the board
PlayedAsListed(e, board, r) ==
    r.err = "" /\ Describes(e, board.map, r.board.map, board.active_player)

\* C30: for every entry of available_turns(), playing its SAN moves a piece
\* of kind `piece` from `src` to `dst` (for castling the king's squares), and
\* `captured` is the kind of the piece the turn removes: none exactly when
\* the turn captures nothing, the pawn for an en-passant capture.
C30_EntriesDescribeTheirTurns ==
    (Alive /\ game.board.gamestate = "Ongoing")
        => \A i \in DOMAIN game.available_turns :
               PlayedAsListed(game.available_turns[i], game.board,
                              next_turn(game.board, game.available_turns[i].turn))

\* the errors of the capture check
CaptureErrors == {"CaptureNotSet", "NoCapturePiece", "CaptureAlly"}

\* a pawn turn has the form the executor asks for: a source hint on a
\* capture, none on a push
PawnForm(turn) ==
    turn.who = PIECE_PAWN => ((turn.src = {}) = (~HasFlag(turn, "CAPTURE")))

\* the destination of a pawn capture is the en-passant capture square
OntoCapturePos(board, turn) ==
    turn.who = PIECE_PAWN /\ board.enpassant # <<>> /\ turn.dst = board.enpassant[2]

\* what the capture check owes a move whose source resolves: err is the
\* error play_turn returns for it
CaptureDecided(board, turn, err) ==
    IF board.map[turn.dst] # 0 /\ ~HasFlag(turn, "CAPTURE") THEN err = "CaptureNotSet"
    ELSE IF board.map[turn.dst] = 0 /\ HasFlag(turn, "CAPTURE")
    THEN (IF OntoCapturePos(board, turn) THEN err \notin CaptureErrors \cup {"panic"}
          ELSE err = "NoCapturePiece")
    ELSE IF board.map[turn.dst] # 0 /\ SideOf(board.map[turn.dst]) = board.active_player
    THEN err = "CaptureAlly"
    ELSE err \notin CaptureErrors \cup {"panic"}

\* the moves among the turn strings tried on the game
MovesTried == {t \in Inputs(setup, game) : t.kind = "Move"}

\* C31: for a move whose source resolves the capture check is decided by
\* what stands on the destination: occupied and no capture mark gives
\* CaptureNotSet, empty and a capture mark gives NoCapturePiece (unless a
\* pawn captures en passant), a piece of the mover's side and a capture mark
\* gives CaptureAlly, and in the two other cases the check passes.  A source
\* that does not resolve gives MovingPieceNotFound before any capture error.
\* The calls looked at are those that PlayTurn makes.
C31_CaptureDecidedByDestination ==
    (Alive /\ game.board.gamestate = "Ongoing" /\ calls < CallsBound(setup))
        => \A t \in {m \in MovesTried : PawnForm(m)} :
               IF SrcOf(game.board, t) = NoSquare
               THEN next_turn(game.board, t).err = "MovingPieceNotFound"
               ELSE CaptureDecided(game.board, t, next_turn(game.board, t).err)

\* C31, a case in which it holds: a capture of a piece of the mover's own
\* side was tried and refused
C31_Witness ==
    /\ Alive /\ result.op = "play_turn" /\ result.err = "CaptureAlly"
    /\ game.board.gamestate = "Ongoing"

\* the pawn turns among the turn strings tried on the game
PawnTurnsTried == {t \in MovesTried : t.who = PIECE_PAWN}

\* C32: a pawn turn is rejected with InvalidPawnMovement exactly when it is
\* a capture without a source hint or a push with one; the rejection comes
\* before the source is looked up, so also when no pawn or more than one
\* could make the move, and it leaves the board as it was.
\* The calls looked at are those that PlayTurn makes.
C32_PawnFormIsTestedFirst ==
    (Alive /\ game.board.gamestate = "Ongoing" /\ calls < CallsBound(setup))
        => \A t \in PawnTurnsTried :
               \A r \in {next_turn(game.board, t)} :
                   /\ (r.err = "InvalidPawnMovement") <=> (~PawnForm(t))
                   /\ (~PawnForm(t)) => r.board = game.board

\* C32, a case in which it holds: a pawn capture without a source hint, for
\* which two pawns stand ready, was refused and the engine state is the one
\* before the call
C32_Witness ==
    /\ Alive /\ result.op = "play_turn" /\ result.err = "InvalidPawnMovement"
    /\ Engine(game) = past[Len(past)]
    /\ \E t \in PawnTurnsTried : ~PawnForm(t) /\ SrcOf(game.board, t) = NoSquare

\* the pawn captures on to an empty square among the turn strings tried
EmptyCapturesTried ==
    {t \in PawnTurnsTried : HasFlag(t, "CAPTURE") /\ game.board.map[t.dst] = 0}

\* the pawn capture on to an empty square that led from board to r took the
\* pawn of the en-passant record: the destination is the capture square, the
\* opponent's pawn on pawn_src is gone and the snapshot holds it
TakenEnPassant(board, turn, r) ==
    /\ OntoCapturePos(board, turn)
    /\ board.map[board.enpassant[1]] = u8_from_figure(PIECE_PAWN, opponent(board.active_player))
    /\ r.board.map[board.enpassant[1]] = 0
    /\ r.state.captured = <<board.enpassant[1], board.map[board.enpassant[1]]>>
    /\ r.board.map[turn.dst] = u8_from_figure(PIECE_PAWN, board.active_player)

\* a full move ago a pawn advanced two squares: the square it skipped
LateSquares(g) ==
    IF Len(g.history) >= 3 /\ TwoSquareAdvance(g.history[Len(g.history) - 2])
    THEN {AdvanceRecord(g.history[Len(g.history) - 2])[2]}
    ELSE {}

\* C33: a pawn capture on to an empty square is accepted only if the square
\* is the capture square of the en-passant record, and the pawn it removes
\* and records is the one on the record's pawn square.  One full move after
\* the advance of two squares the same capture is refused with
\* NoCapturePiece and is not in available_turns().
\* The calls looked at are those that PlayTurn makes.
C33_EnPassantOnlyAtOnce ==
    (Alive /\ game.board.gamestate = "Ongoing")
        => /\ calls < CallsBound(setup)
                  => \A t \in EmptyCapturesTried :
                         \A r \in {next_turn(game.board, t)} :
                             /\ r.err = "" => TakenEnPassant(game.board, t, r)
                             /\ (t.dst \in LateSquares(game) /\ PawnForm(t)
                                 /\ SrcOf(game.board, t) # NoSquare)
                                    => r.err = "NoCapturePiece"
           /\ \A i \in PawnEntries(game) :
                  ~(/\ game.available_turns[i].dst \in LateSquares(game)
                    /\ game.available_turns[i].captured # 0
                    /\ game.board.map[game.available_turns[i].dst] = 0)

\* C33, a case in which it holds: a full move after the advance of two
\* squares the capture on to the square the pawn skipped was tried, by a
\* pawn standing ready for it, and refused with NoCapturePiece
C33_Witness ==
    /\ Alive /\ result.op = "play_turn" /\ result.err = "NoCapturePiece"
    /\ \E t \in EmptyCapturesTried :
          t.dst \in LateSquares(game) /\ PawnForm(t) /\ SrcOf(game.board, t) # NoSquare

\* C33, another: a pawn was captured en passant
C33_CapturedEnPassant ==
    /\ Accepted
    /\ LastTurn.kind = "Move" /\ LastTurn.who = PIECE_PAWN
    /\ game.history[Len(game.history)].captured # <<>>
    /\ game.history[Len(game.history)].captured[1] # LastTurn.dst

\* the position that results from a turn, as the enumerator builds it:
\* simulate_turn on the piece that moves
Resulting(board, turn) ==
    simulate_turn(board,
                  IF turn.kind = "Castling"
                  THEN Sps(board.king[board.active_player], PIECE_KING, board.active_player)
                  ELSE Sps(SrcOf(board, turn), turn.who, board.active_player),
                  turn)

\* the executor's scan for a reply on board b agrees with the position sim
\* that results from the turn: the en-passant record and the castling rights
\* are those of sim, and a reply is found exactly when confirm_checkmate
\* finds one in sim
ScanAgrees(b, sim) ==
    /\ b.enpassant = sim.enpassant
    /\ b.castling_rights = sim.castling_rights
    /\ (get_available_turns(b).turns # <<>>) = (~confirm_checkmate(sim).mate)

\* C34: whenever the executor's can_opponent_do_any_turns runs, the
\* en-passant record and the castling rights of the board are already those
\* of the position that results from the turn, so its answer is whether the
\* opponent has a legal turn in that position, the answer of the
\* enumerator's confirm_checkmate for the same turn.
\* The calls looked at are those that PlayTurn makes.
C34_ReplyScanSeesResultingPosition ==
    (Alive /\ game.board.gamestate = "Ongoing" /\ calls < CallsBound(setup))
        => \A t \in Inputs(setup, game) :
               \A b \in ReplyScans(game.board, t) :
                   \A sim \in {Resulting(game.board, t)} :
                       (sim.ok /\ sim.board.fault = "") => ScanAgrees(b, sim.board)

\* C35: hash_state_pop is only called for a position hash counted at least
\* once: every pop, in undo_turn and in the rollback of a simulated turn,
\* matches an earlier push of the same hash, so that no count is decremented
\* below zero, after any sequence of accepted plays, rejected plays and undos.
\* The calls looked at are those that PlayTurn and UndoTurn make.
C35_PopMatchesPush ==
    (Alive /\ calls < CallsBound(setup))
        => /\ \A t \in Inputs(setup, game) : ~play_turn(game, t).game.board.overflow
           /\ UndoTried(setup, game) => ~undo_turn(game).game.board.overflow

\* ---------------------------------------------------------------------- C36
\* the hash the last accepted turn pushed: that of the position it left,
\* taken before the sides were switched
PushedHash(g) == calc_hash(switch_side(g.board))

\* how often the multiset hashes counts the hash h
CountIn(hashes, h) == IF h \in DOMAIN hashes THEN hashes[h] ELSE 0

\* C36: after an accepted turn the hash of the position it left is counted
\* once more than before, the active player is the mover's opponent, and the
\* game state is Victory(mover) if the turn carries the checkmate mark,
\* else DrawThreeFoldRepetition if that hash is now counted three times,
\* else DrawFiftyMoveRule if the fifty-move counter has reached its limit,
\* and none of these otherwise.
C36_BookkeepingOrder ==
    Accepted =>
        LET before == past[Len(past) - 1]
            mover == before[8]
            cnt == HashCount(game.board, PushedHash(game))
        IN /\ game.board.active_player = opponent(mover)
           /\ cnt = CountIn(before[7], PushedHash(game)) + 1
           /\ HashSum(game.board.state_hashes) = HashSum(before[7]) + 1
           /\ IF is_checkmate(LastTurn)
              THEN game.board.gamestate = Victory(mover)
              ELSE IF cnt = 3
              THEN game.board.gamestate = "DrawThreeFoldRepetition"
              ELSE IF game.board.fifty_move_rule >= FIFTY_MOVE_LIMIT
              THEN game.board.gamestate = "DrawFiftyMoveRule"
              ELSE game.board.gamestate
                       \in {"Ongoing", "Stalemate", "DrawInsufficientMatingMaterial"}

\* the 100th half-move of the walk brings a position for the third time: the
\* game is drawn by repetition
C36_Witness ==
    /\ Accepted
    /\ game.board.fifty_move_rule >= FIFTY_MOVE_LIMIT
    /\ HashCount(game.board, PushedHash(game)) = 3
    /\ game.board.gamestate = "DrawThreeFoldRepetition"
    /\ game.board.active_player = SIDE_WHITE

\* the 100th half-move of a game is a checkmate: the game is won
C36_MateOnHundredth ==
    /\ Accepted
    /\ game.board.fifty_move_rule >= FIFTY_MOVE_LIMIT
    /\ is_checkmate(LastTurn)
    /\ Checkmated(game.board)
    /\ game.board.gamestate = Victory(SIDE_BLACK)

\* ---------------------------------------------------------------------- C37
\* the castling turns among the turn strings tried
CastlingsTried(g) == {t \in Inputs(setup, g) : t.kind = "Castling"}

\* the board b1 is the board b0 after side has castled: king and rook have
\* gone from their squares to their new ones, both rights of side are gone,
\* the en-passant record is empty, nothing else has changed
HasCastled(b0, b1, side, type) ==
    LET kp == get_path_king(side, type)
        rp == get_path_rook(side, type)
    IN /\ b0.map[kp.src] = u8_from_figure(PIECE_KING, side)
       /\ b0.map[rp.src] = u8_from_figure(PIECE_ROOK, side)
       /\ b1.map = [sq \in Squares |->
                       IF sq \in {kp.src, rp.src} THEN 0
                       ELSE IF sq = kp.dst THEN u8_from_figure(PIECE_KING, side)
                       ELSE IF sq = rp.dst THEN u8_from_figure(PIECE_ROOK, side)
                       ELSE b0.map[sq]]
       /\ b1.king = [b0.king EXCEPT ![side] = kp.dst]
       /\ b1.castling_rights = b0.castling_rights \ {<<side, "Long">>, <<side, "Short">>}
       /\ b1.enpassant = <<>>

\* C37: an accepted castling turn moves the mover's king from e1/e8 to g1/g8
\* or c1/c8 and the rook from h1/h8 to f1/f8 or from a1/a8 to d1/d8,
\* removes both castling rights of the mover, leaves the opponent's rights
\* and every other piece as they are and clears the en-passant record;
\* undoing it puts king and rook back and restores the rights.
C37_CastlingMovesKingAndRook ==
    (Alive /\ calls < CallsBound(setup))
        => \A t \in CastlingsTried(game) : \A r \in {play_turn(game, t)} :
               r.err = ""
                   => /\ HasCastled(game.board, r.game.board, game.board.active_player, t.type)
                      /\ \A u \in {undo_turn(r.game)} :
                             /\ u.err = ""
                             /\ u.game.board.map = game.board.map
                             /\ u.game.board.king = game.board.king
                             /\ u.game.board.castling_rights = game.board.castling_rights

\* ---------------------------------------------------------------------- C38
\* C38: an accepted pawn move on to the mover's final rank names a promotion
\* piece, an accepted turn that names one goes to the final rank, and the
\* square an accepted pawn move went to holds a pawn exactly when it is not
\* on the final rank.
C38_PromotionOnFinalRank ==
    (Accepted /\ LastTurn.kind = "Move" /\ LastTurn.who = PIECE_PAWN)
        => LET mover == opponent(game.board.active_player)
               final == RankOf(LastTurn.dst) = FinalRank(mover)
           IN /\ final <=> (LastTurn.promotion # 0)
              /\ final <=> (PieceOf(game.board.map[LastTurn.dst]) # PIECE_PAWN)

\* ---------------------------------------------------------------------- C39
\* the side that played the i-th turn of a game from the normal setup
MoverOf(i) == IF i % 2 = 1 THEN SIDE_WHITE ELSE SIDE_BLACK

\* a turn on the history stack moved the king of side
KingHasMoved(history, side) ==
    \E i \in DOMAIN history :
        /\ MoverOf(i) = side
        /\ history[i].turn.kind = "Castling" \/ history[i].turn.who = PIECE_KING

\* a turn on the history stack moved a piece from the corner or captured
\* one there: the first such turn moved or captured the rook that started on
\* it
CornerRookGone(history, corner) ==
    \E i \in DOMAIN history :
        \/ history[i].moving_piece_src = corner
        \/ history[i].captured # <<>> /\ history[i].captured[1] = corner

\* C39: in a game from the normal setup a side holds a castling right
\* exactly when no turn on the history stack has moved its king and none has
\* moved or captured the rook that started on the corner of that right;
\* whenever it holds the right its king stands on e1/e8 and a rook of its
\* own on that corner, and no castling turn finds an empty source square.
C39_RightsFollowKingAndRooks ==
    (Alive /\ setup = NORMAL_SETUP.text)
        => /\ \A side \in {SIDE_WHITE, SIDE_BLACK} : \A type \in {"Long", "Short"} :
                  LET held == <<side, type>> \in game.board.castling_rights
                      corner == get_path_rook(side, type).src
                  IN /\ held <=> (~KingHasMoved(game.history, side)
                                    /\ ~CornerRookGone(game.history, corner))
                     /\ held => /\ game.board.map[get_path_king(side, type).src]
                                       = u8_from_figure(PIECE_KING, side)
                                /\ game.board.map[corner] = u8_from_figure(PIECE_ROOK, side)
           /\ calls < CallsBound(setup)
                  => \A t \in CastlingsTried(game) : play_turn(game, t).err # "panic"

\* ---------------------------------------------------------------------- C40
\* the position after construction
StartingPosition == Position(past[1])

\* C40: an accepted turn that brings the starting position for the third
\* time, the position after construction counted as the first, sets the
\* game state to DrawThreeFoldRepetition.
C40_StartingPositionCounts ==
    (Accepted /\ Position(Engine(game)) = StartingPosition /\ Occurrences(past, game) = 3)
        => game.board.gamestate = "DrawThreeFoldRepetition"

====
